---------------------------- MODULE Spec2Model ----------------------------
(***************************************************************************)
(* Aggregation engine of the booking dashboard: the functions that turn    *)
(* the uploaded booking table into the summary tables of the report pages  *)
(* (utils.py, monthly_user_booking_analysis.py,                            *)
(* monthly_booking_student_callbacks.py, top_20_users_utils.py,            *)
(* student_distribution.py).                                               *)
(*                                                                         *)
(* A DataFrame is a sequence of rows (records keyed by column name).  A    *)
(* Python string that the code compares, searches or formats is a sequence *)
(* of character codes; a string that is only tested for equality is a TLA+ *)
(* string.                                                                 *)
(***************************************************************************)
EXTENDS Integers, Sequences, FiniteSets, TLC

VARIABLES
    data,      \* the rows of the DataFrame the callback holds and hands to the engine
    columns,   \* the column names of that DataFrame
    call,      \* the engine function called last, with its arguments
    result,    \* what that call returned
    pc         \* "init" (no table yet), "loaded" (table read), "done" (engine returned)

vars == <<data, columns, call, result, pc>>

(***************************************************************************)
(* Bounds of the model.                                                    *)
(***************************************************************************)
MaxRows == 4        \* rows of a table on the frequency page
MaxUpperArg == 5    \* largest value of the max-upper input
MaxRowsStudent == 3 \* rows of a table on the per-student page
MaxRowsTop == 2     \* rows of a table on the top-20 page, the crowd aside
MaxRowsDist == 3    \* rows of a table on the distribution page
MaxThreshold == 3   \* largest value of a threshold input
MaxCrowdOver == 1   \* by how many the crowd may exceed the 20 places
MaxTieShift == 2    \* by how far the sort may rotate equal counts, either way
MaxBookings == 42    \* bookings of the regular student of the retention tables
LongWindow == 21     \* months of the long window of the retention tables
MaxRowsEngine == 2  \* rows of a table where several functions or callbacks run on it

(***************************************************************************)
(* Python strings as sequences of character codes.                         *)
(***************************************************************************)
RECURSIVE StrLeqFrom(_, _, _)
StrLeqFrom(a, b, i) ==
    IF i > Len(a) THEN TRUE
    ELSE IF i > Len(b) THEN FALSE
    ELSE IF a[i] < b[i] THEN TRUE
    ELSE IF a[i] > b[i] THEN FALSE
    ELSE StrLeqFrom(a, b, i + 1)

\* a <= b on Python str: code point by code point, a proper prefix is smaller
StrLeq(a, b) == StrLeqFrom(a, b, 1)

\* str.lower() on one ASCII character
LowerChar(c) == IF c >= 65 /\ c <= 90 THEN c + 32 ELSE c

\* Series.str.contains(pat, case=case, na=False) on one cell; NaN is the cell <<-1>>
NaN == <<-1>>

StrContains(s, pat, case) ==
    IF s = NaN THEN FALSE
    ELSE \E k \in 0..(Len(s) - Len(pat)) :
            \A j \in 1..Len(pat) :
                IF case THEN s[k + j] = pat[j]
                ELSE LowerChar(s[k + j]) = LowerChar(pat[j])

SelfPracticeStr == <<83, 101, 108, 102, 32, 80, 114, 97, 99, 116, 105, 99, 101>>      \* "Self Practice"

(***************************************************************************)
(* Timestamps and periods.  A timestamp is [ym, day, hour] with            *)
(* ym = 12 * year + (month - 1); NaT is the missing timestamp.             *)
(***************************************************************************)
NaT == [ym |-> -1, day |-> 0, hour |-> 0]

Digit(d) == 48 + d

\* str(pandas.Period(freq="M")): "YYYY-MM", zero padded
FormatYM(ym) ==
    LET y == ym \div 12
        m == (ym % 12) + 1
    IN  <<Digit(y \div 1000), Digit((y \div 100) % 10), Digit((y \div 10) % 10),
          Digit(y % 10), 45, Digit(m \div 10), Digit(m % 10)>>

\* Series.dt.to_period("M").astype(str) on one cell: NaT gives "NaT"
PeriodStr(ts) == IF ts = NaT THEN <<78, 97, 84>> ELSE FormatYM(ts.ym)

\* pd.to_datetime("YYYY-MM" + "-01") / pd.Period("YYYY-MM", freq="M"): the month of a well-formed period string
ParsePeriod(s) ==
    LET y == (s[1] - 48) * 1000 + (s[2] - 48) * 100 + (s[3] - 48) * 10 + (s[4] - 48)
        m == (s[6] - 48) * 10 + (s[7] - 48)
    IN  12 * y + (m - 1)

IsDigit(c) == c >= 48 /\ c <= 57

\* whether pd.to_datetime(s, format='%Y-%m') accepts s: four digits, '-', and a
\* month 1..12 written with one or two digits; anything else raises ValueError
MatchesYm(s) ==
    /\ Len(s) \in {6, 7}
    /\ \A i \in 1..4 : IsDigit(s[i])
    /\ s[5] = 45
    /\ \A i \in 6..Len(s) : IsDigit(s[i])
    /\ LET m == IF Len(s) = 6 THEN s[6] - 48 ELSE (s[6] - 48) * 10 + (s[7] - 48)
       IN  m >= 1 /\ m <= 12

\* pd.to_datetime(s, format='%Y-%m') where it accepts s: the month of s
to_datetime_ym(s) ==
    IF Len(s) = 7 THEN ParsePeriod(s)
    ELSE 12 * ((s[1] - 48) * 1000 + (s[2] - 48) * 100 + (s[3] - 48) * 10 + (s[4] - 48))
            + (s[6] - 48) - 1

(***************************************************************************)
(* Helpers on sets and sequences.                                          *)
(***************************************************************************)
Min(S) == CHOOSE x \in S : \A y \in S : x <= y
Max(S) == CHOOSE x \in S : \A y \in S : x >= y

\* sorted(S) for a finite set of integers
RECURSIVE SortedSeq(_)
SortedSeq(S) == IF S = {} THEN <<>> ELSE <<Min(S)>> \o SortedSeq(S \ {Min(S)})

Range(s) == {s[i] : i \in DOMAIN s}

\* DataFrame[mask]: the rows whose index is in keep, in their order
RECURSIVE Keep(_, _, _)
Keep(df, keep, i) ==
    IF i > Len(df) THEN <<>>
    ELSE (IF i \in keep THEN <<df[i]>> ELSE <<>>) \o Keep(df, keep, i + 1)

\* Series.drop_duplicates() / DataFrame.drop_duplicates(): first occurrences, in order
RECURSIVE DropDuplicatesFrom(_, _, _)
DropDuplicatesFrom(s, i, seen) ==
    IF i > Len(s) THEN <<>>
    ELSE IF s[i] \in seen THEN DropDuplicatesFrom(s, i + 1, seen)
    ELSE <<s[i]>> \o DropDuplicatesFrom(s, i + 1, seen \cup {s[i]})

DropDuplicates(s) == DropDuplicatesFrom(s, 1, {})

\* zip(a, b): pairs up to the shorter length
Zip(a, b) ==
    LET n == IF Len(a) < Len(b) THEN Len(a) ELSE Len(b)
    IN  [i \in 1..n |-> <<a[i], b[i]>>]

\* DataFrame.groupby("Id_Person").size(): ids present |-> number of rows
GroupSizeById(df) ==
    [id \in {df[i].Id_Person : i \in DOMAIN df} |->
        Cardinality({i \in DOMAIN df : df[i].Id_Person = id})]

(***************************************************************************)
(* utils.create_frequency_table                                            *)
(***************************************************************************)
\* the function's "return None"; a frequency table always has max_upper + 1 >= 1 rows
None == <<>>

\* mutant of PeriodFilter: a range keeps the rows of its last month only
PeriodFilter_last_month(df, period, start_period, end_period) ==
    IF period # <<>>
    THEN Keep(df, {i \in DOMAIN df : PeriodStr(df[i].Start_Date_time) = period}, 1)
    ELSE Keep(df, {i \in DOMAIN df :
                    /\ StrLeq(start_period, end_period)
                    /\ PeriodStr(df[i].Start_Date_time) = end_period}, 1)

\* rows kept by the period filter (lines 7-11); an absent argument is the empty string
PeriodFilter(df, period, start_period, end_period) ==
    IF period # <<>>
    THEN Keep(df, {i \in DOMAIN df : PeriodStr(df[i].Start_Date_time) = period}, 1)
    ELSE Keep(df, {i \in DOMAIN df :
                    /\ StrLeq(start_period, PeriodStr(df[i].Start_Date_time))
                    /\ StrLeq(PeriodStr(df[i].Start_Date_time), end_period)}, 1)

\* data_filtered[~Class_Name.str.contains("Self Practice", case=False, na=False)]
ExcludeSelfPractice(df) ==
    Keep(df, {i \in DOMAIN df : ~StrContains(df[i].Class_Name, SelfPracticeStr, FALSE)}, 1)

\* get_student_details(freq): the "{name} : {id}" entries, as <<name, id>> pairs
get_student_details(freq, data_filtered, booking_frequencies, max_upper) ==
    LET ids == IF freq.gt
               THEN SortedSeq({id \in DOMAIN booking_frequencies : booking_frequencies[id] > max_upper})
               ELSE SortedSeq({id \in DOMAIN booking_frequencies : booking_frequencies[id] = freq.n})
        rows == Keep(data_filtered,
                     {i \in DOMAIN data_filtered : data_filtered[i].Id_Person \in Range(ids)}, 1)
        names == DropDuplicates([i \in DOMAIN rows |-> rows[i].FirstName])
    IN  Zip(names, ids)

\* the "#Students" cell of numeric bin i
StudentsInBin(booking_frequencies, i) ==
    Cardinality({id \in DOMAIN booking_frequencies : booking_frequencies[id] = i})

\* mutant of StudentsAbove: the overflow bin also takes frequency = max_upper
StudentsAbove_inclusive(booking_frequencies, max_upper) ==
    Cardinality({id \in DOMAIN booking_frequencies : booking_frequencies[id] >= max_upper})

\* the "#Students" cell of the overflow bin ">max_upper"
StudentsAbove(booking_frequencies, max_upper) ==
    Cardinality({id \in DOMAIN booking_frequencies : booking_frequencies[id] > max_upper})

\* sum(booking_frequencies <= i)
StudentsUpTo(booking_frequencies, i) ==
    Cardinality({id \in DOMAIN booking_frequencies : booking_frequencies[id] <= i})

\* mutant of CumToEnd: the current bin is counted in "Cum ->End" too
CumToEnd_inclusive(booking_frequencies, i) ==
    Cardinality(DOMAIN booking_frequencies) - StudentsUpTo(booking_frequencies, i - 1)

\* the "Cum ->End" cell of numeric bin i
CumToEnd(booking_frequencies, i) ==
    Cardinality(DOMAIN booking_frequencies) - StudentsUpTo(booking_frequencies, i)

\* Columns: Freq (gt marks the ">max_upper" label), Students = "#Students",
\* Cum1 = "Cum 1->", CumEnd = "Cum ->End", Details.
create_frequency_table(df, period, start_period, end_period, max_upper) ==
    IF period = <<>> /\ (start_period = <<>> \/ end_period = <<>>) THEN None
    ELSE
    LET data_filtered == ExcludeSelfPractice(PeriodFilter(df, period, start_period, end_period))
        booking_frequencies == GroupSizeById(data_filtered)
        Freq(i) == IF i <= max_upper THEN [gt |-> FALSE, n |-> i]
                   ELSE [gt |-> TRUE, n |-> max_upper]
    IN  [i \in 1..(max_upper + 1) |->
            [Freq     |-> Freq(i),
             Students |-> IF i <= max_upper THEN StudentsInBin(booking_frequencies, i)
                          ELSE StudentsAbove(booking_frequencies, max_upper),
             Cum1     |-> IF i <= max_upper THEN StudentsUpTo(booking_frequencies, i)
                          ELSE Cardinality(DOMAIN booking_frequencies),
             CumEnd   |-> IF i <= max_upper THEN CumToEnd(booking_frequencies, i)
                          ELSE StudentsAbove(booking_frequencies, max_upper),
             Details  |-> get_student_details(Freq(i), data_filtered, booking_frequencies, max_upper)]]

(***************************************************************************)
(* monthly_booking_student_callbacks.calculate_monthly_bookings            *)
(***************************************************************************)
\* number of days of the month ym (what pd.offsets.MonthEnd(1) moves the first day to)
DaysInMonth(ym) ==
    LET y == ym \div 12
        m == (ym % 12) + 1
    IN  IF m \in {4, 6, 9, 11} THEN 30
        ELSE IF m # 2 THEN 31
        ELSE IF (y % 4 = 0 /\ y % 100 # 0) \/ y % 400 = 0 THEN 29
        ELSE 28

\* a <= b on timestamps; a comparison with NaT is False
TsLeq(a, b) ==
    /\ a # NaT
    /\ b # NaT
    /\ \/ a.ym < b.ym
       \/ a.ym = b.ym /\ a.day < b.day
       \/ a.ym = b.ym /\ a.day = b.day /\ a.hour <= b.hour

\* Series.dt.strftime('%Y-%m') on one cell: NaT gives NaN
StrfYM(ts) == IF ts = NaT THEN NaN ELSE FormatYM(ts.ym)

\* mutant of WithYearMonth: line 20 also moves Start_Date_time, in place, by
\* MonthEnd(1): to the end of its month, a month end to the end of the next month
WithYearMonth_month_end(df) ==
    [i \in DOMAIN df |->
        [c \in (DOMAIN df[i]) \cup {"YearMonth"} |->
            IF c = "YearMonth" THEN StrfYM(df[i].Start_Date_time)
            ELSE IF c = "Start_Date_time" /\ df[i].Start_Date_time # NaT
            THEN LET ts == df[i].Start_Date_time
                 IN  IF ts.day < DaysInMonth(ts.ym)
                     THEN [ts EXCEPT !.day = DaysInMonth(ts.ym)]
                     ELSE [ts EXCEPT !.ym = ts.ym + 1, !.day = DaysInMonth(ts.ym + 1)]
            ELSE df[i][c]]]

\* line 20, data['YearMonth'] = ...: the caller's DataFrame gets (or has overwritten) a column
WithYearMonth(df) ==
    [i \in DOMAIN df |->
        [c \in (DOMAIN df[i]) \cup {"YearMonth"} |->
            IF c = "YearMonth" THEN StrfYM(df[i].Start_Date_time) ELSE df[i][c]]]

\* pd.date_range(start, end, freq='MS').strftime('%Y-%m').tolist()
MonthSpine(first, last) ==
    [k \in 1..(IF last >= first THEN last - first + 1 ELSE 0) |-> FormatYM(first + k - 1)]

\* filtered_data[['Id_Person', 'FirstName']].drop_duplicates().values (line 35)
StudentPairs(filtered_data) ==
    DropDuplicates([i \in DOMAIN filtered_data |->
                        <<filtered_data[i].Id_Person, filtered_data[i].FirstName>>])

\* Columns of the result: YearMonth, Id_Person, FirstName, Bookings.
calculate_monthly_bookings(df, selected_students, start, end) ==
    LET start_date == [ym |-> ParsePeriod(start), day |-> 1, hour |-> 0]
        end_date == [ym |-> ParsePeriod(end), day |-> DaysInMonth(ParsePeriod(end)), hour |-> 0]
        all_months_str == MonthSpine(start_date.ym, end_date.ym)
        frame == WithYearMonth(df)
        filtered_data ==
            Keep(frame, {i \in DOMAIN frame :
                            /\ frame[i].Id_Person \in Range(selected_students)
                            /\ TsLeq(start_date, frame[i].Start_Date_time)
                            /\ TsLeq(frame[i].Start_Date_time, end_date)
                            /\ ~StrContains(frame[i].Class_Name, SelfPracticeStr, FALSE)}, 1)
        \* groupby(['YearMonth', 'Id_Person', 'FirstName']).size() at one key, 0 where the merge finds none
        Bookings(month, id, name) ==
            Cardinality({i \in DOMAIN filtered_data :
                            /\ filtered_data[i].YearMonth = month
                            /\ filtered_data[i].Id_Person = id
                            /\ filtered_data[i].FirstName = name})
        pairs == StudentPairs(filtered_data)
        np == Len(pairs)
    IN  [k \in 1..(Len(all_months_str) * np) |->
            LET month == all_months_str[((k - 1) \div np) + 1]
                pair == pairs[((k - 1) % np) + 1]
            IN  [YearMonth |-> month, Id_Person |-> pair[1], FirstName |-> pair[2],
                 Bookings |-> Bookings(month, pair[1], pair[2])]]

(***************************************************************************)
(* top_20_users_utils.calculate_top_20                                     *)
(***************************************************************************)
TopN == 20      \* .head(20)

\* mutant of BookingCounts: the rows are counted by FirstName, not by Id_Person
BookingCounts_by_name(month_data) ==
    LET ids == SortedSeq({month_data[i].Id_Person : i \in DOMAIN month_data})
    IN  [k \in DOMAIN ids |->
            [Id_Person |-> ids[k],
             Bookings |-> Cardinality({i \in DOMAIN month_data :
                            \E j \in DOMAIN month_data :
                                /\ month_data[j].Id_Person = ids[k]
                                /\ month_data[j].FirstName = month_data[i].FirstName})]]

\* month_data.groupby('Id_Person').size().reset_index(name='Bookings'): one row per id, ids ascending
BookingCounts(month_data) ==
    LET ids == SortedSeq({month_data[i].Id_Person : i \in DOMAIN month_data})
    IN  [k \in DOMAIN ids |->
            [Id_Person |-> ids[k],
             Bookings |-> Cardinality({i \in DOMAIN month_data : month_data[i].Id_Person = ids[k]})]]

\* x = <<key, row>> put into s, which is ordered by key
InsertKeyed(x, s) ==
    LET k == Cardinality({j \in DOMAIN s : s[j][1] < x[1]})
    IN  SubSeq(s, 1, k) \o <<x>> \o SubSeq(s, k + 1, Len(s))

RECURSIVE SortKeyed(_, _, _, _)
SortKeyed(booking_counts, tie, i, acc) ==
    IF i > Len(booking_counts) THEN acc
    ELSE LET n == Len(booking_counts)
             key == (0 - booking_counts[i].Bookings) * n + ((i - 1 + tie) % n)
         IN  SortKeyed(booking_counts, tie, i + 1, InsertKeyed(<<key, booking_counts[i]>>, acc))

\* mutant of SortByBookings: the sort is left out, the counts stay in groupby (id) order
SortByBookings_unsorted(booking_counts, tie) == booking_counts

\* booking_counts.sort_values('Bookings', ascending=False): the rows by count,
\* largest first.  The default sort is not stable, so the order of equal counts
\* is not fixed by the code: tie chooses it, as a rotation of the id order.
SortByBookings(booking_counts, tie) ==
    LET keyed == SortKeyed(booking_counts, tie, 1, <<>>)
    IN  [k \in DOMAIN keyed |-> keyed[k][2]]

\* DataFrame.head(n)
HeadN(s, n) == [i \in 1..(IF Len(s) < n THEN Len(s) ELSE n) |-> s[i]]

\* booking_counts.merge(student_details, on='Id_Person', how='left'): for every
\* left row, in order, one row per matching right row, in the right rows' order
RECURSIVE MergeLeft(_, _, _)
MergeLeft(booking_counts, student_details, i) ==
    IF i > Len(booking_counts) THEN <<>>
    ELSE LET matches == Keep(student_details,
                             {j \in DOMAIN student_details :
                                student_details[j][1] = booking_counts[i].Id_Person}, 1)
         IN  [j \in DOMAIN matches |->
                [Id_Person |-> booking_counts[i].Id_Person,
                 Bookings  |-> booking_counts[i].Bookings,
                 FirstName |-> matches[j][2]]]
             \o MergeLeft(booking_counts, student_details, i + 1)

\* Columns: Id_Person, Bookings, FirstName, Month, Rank; month_data is not empty.
get_top_20_for_month(month_data, tie) ==
    LET booking_counts == HeadN(SortByBookings(BookingCounts(month_data), tie), TopN)
        student_details ==
            DropDuplicates([i \in DOMAIN month_data |->
                                <<month_data[i].Id_Person, month_data[i].FirstName>>])
        month_top_20 == MergeLeft(booking_counts, student_details, 1)
    IN  [r \in DOMAIN month_top_20 |->
            [Id_Person |-> month_top_20[r].Id_Person,
             Bookings  |-> month_top_20[r].Bookings,
             FirstName |-> month_top_20[r].FirstName,
             Month     |-> month_data[1].Start_Date_time.ym,
             Rank      |-> r]]

\* lines 70-80: the per-month rankings, concatenated in the order of filtered_data['Month'].unique()
RECURSIVE ConcatMonths(_, _, _, _)
ConcatMonths(filtered_data, months, tie, m) ==
    IF m > Len(months) THEN <<>>
    ELSE get_top_20_for_month(
            Keep(filtered_data,
                 {i \in DOMAIN filtered_data : filtered_data[i].Start_Date_time.ym = months[m]}, 1),
            tie)
         \o ConcatMonths(filtered_data, months, tie, m + 1)

\* Columns: Month (as 12 * year + month - 1), Rank, Id_Person, FirstName, Bookings,
\* Formatted (FirstName + ' (' + Id_Person + ') : ' + Bookings, as the three parts).
\* The result without rows is the empty DataFrame of lines 44, 78 and 98.
calculate_top_20(df, start, end, tie) ==
    IF ~MatchesYm(start) \/ ~MatchesYm(end) THEN <<>>      \* ValueError, caught on line 91
    ELSE
    LET start_date == to_datetime_ym(start)
        end_date == to_datetime_ym(end)
        data_filtered == ExcludeSelfPractice(df)
        filtered_data ==
            Keep(data_filtered,
                 {i \in DOMAIN data_filtered :
                    /\ data_filtered[i].Start_Date_time # NaT
                    /\ data_filtered[i].Start_Date_time.ym >= start_date
                    /\ data_filtered[i].Start_Date_time.ym <= end_date}, 1)
        months == DropDuplicates([i \in DOMAIN filtered_data |->
                                    filtered_data[i].Start_Date_time.ym])
        top_20_df == ConcatMonths(filtered_data, months, tie, 1)
    IN  [r \in DOMAIN top_20_df |->
            [c \in (DOMAIN top_20_df[r]) \cup {"Formatted"} |->
                IF c = "Formatted"
                THEN <<top_20_df[r].FirstName, top_20_df[r].Id_Person, top_20_df[r].Bookings>>
                ELSE top_20_df[r][c]]]

(***************************************************************************)
(* student_distribution.calculate_distribution                             *)
(***************************************************************************)
\* the missing value of the Cateory column
NoCategory == "NaN"

\* re.search(r'\((.*?)\)', x).group(1) if it matches, else x: the text between
\* the first '(' and the first ')' after it
ExtractParenthesized(x) ==
    LET opens == {i \in DOMAIN x : x[i] = 40 /\ \E j \in DOMAIN x : j > i /\ x[j] = 41}
    IN  IF opens = {} THEN x
        ELSE LET i == Min(opens)
                 j == Min({k \in DOMAIN x : k > i /\ x[k] = 41})
             IN  SubSeq(x, i + 1, j - 1)

\* round(total / total_months, 1), in tenths.  Python rounds the double to the
\* nearest tenth, an exact tie to the even one.  A quotient halfway between two
\* tenths is an odd multiple of 1/20: either a multiple of 1/4, which is a double
\* exactly, or total_months is a multiple of 20, which no window here is; every
\* other quotient lies off the ties by far more than the error of the division.
RoundTenths(total, total_months) ==
    LET q == (10 * total) \div total_months
        r == (10 * total) % total_months
    IN  IF 2 * r < total_months THEN q
        ELSE IF 2 * r > total_months THEN q + 1
        ELSE IF q % 2 = 0 THEN q ELSE q + 1

\* lines 51-57: the rows that take part in the partition
DistributionFilter(df, start_period, end_period) ==
    Keep(df, {i \in DOMAIN df :
                /\ df[i].Cateory # NoCategory
                /\ df[i].Cateory # "Virgin"
                /\ ~StrContains(df[i].Class_Name, SelfPracticeStr, TRUE)
                /\ StrLeq(start_period, PeriodStr(df[i].Start_Date_time))
                /\ StrLeq(PeriodStr(df[i].Start_Date_time), end_period)}, 1)

\* mutant of VennSubsets: "110" forgets to take the Choreo students out
VennSubsets_overlap(sets) ==
    [k \in {"100", "010", "001", "110", "101", "011", "111"} |->
        CASE k = "100" -> (sets["Spin"] \ sets["Sport"]) \ sets["Choreo"]
          [] k = "010" -> (sets["Sport"] \ sets["Spin"]) \ sets["Choreo"]
          [] k = "001" -> (sets["Choreo"] \ sets["Spin"]) \ sets["Sport"]
          [] k = "110" -> sets["Spin"] \cap sets["Sport"]
          [] k = "101" -> (sets["Spin"] \cap sets["Choreo"]) \ sets["Sport"]
          [] k = "011" -> (sets["Sport"] \cap sets["Choreo"]) \ sets["Spin"]
          [] k = "111" -> (sets["Spin"] \cap sets["Sport"]) \cap sets["Choreo"]]

\* lines 82-90: the 7 regions of the Venn diagram
VennSubsets(sets) ==
    [k \in {"100", "010", "001", "110", "101", "011", "111"} |->
        CASE k = "100" -> (sets["Spin"] \ sets["Sport"]) \ sets["Choreo"]
          [] k = "010" -> (sets["Sport"] \ sets["Spin"]) \ sets["Choreo"]
          [] k = "001" -> (sets["Choreo"] \ sets["Spin"]) \ sets["Sport"]
          [] k = "110" -> (sets["Spin"] \cap sets["Sport"]) \ sets["Choreo"]
          [] k = "101" -> (sets["Spin"] \cap sets["Choreo"]) \ sets["Sport"]
          [] k = "011" -> (sets["Sport"] \cap sets["Choreo"]) \ sets["Spin"]
          [] k = "111" -> (sets["Spin"] \cap sets["Sport"]) \cap sets["Choreo"]]

\* lines 45-47: pd.period_range(start_month, end_month, freq="M").size, which is
\* 0 when the end is before the start
TotalMonths(start_period, end_period) ==
    LET start_month == ParsePeriod(start_period)
        end_month == ParsePeriod(end_period)
    IN  IF end_month >= start_month THEN end_month - start_month + 1 ELSE 0

\* The returned tuple, by name.  avg_bookings_per_month is in tenths; a student
\* label "({id}){name}-{total}" is kept as its three parts.
calculate_distribution(df, start_period, end_period) ==
    LET total_months == TotalMonths(start_period, end_period)
        kept == DistributionFilter(df, start_period, end_period)
        filtered_data ==
            [i \in DOMAIN kept |->
                [c \in (DOMAIN kept[i]) \cup {"Month"} |->
                    IF c = "Month" THEN kept[i].Start_Date_time.ym
                    ELSE IF c = "FirstName" THEN ExtractParenthesized(kept[i].FirstName)
                    ELSE kept[i][c]]]
        categories == <<"Spin", "Sport", "Choreo">>
        sets == [cat \in Range(categories) |->
                    {filtered_data[i].Id_Person :
                        i \in {j \in DOMAIN filtered_data : filtered_data[j].Cateory = cat}}]
        total_bookings_per_student == GroupSizeById(filtered_data)
        avg_bookings_per_month ==
            [sid \in DOMAIN total_bookings_per_student |->
                RoundTenths(total_bookings_per_student[sid], total_months)]
        \* a dict comprehension over the distinct (id, name) rows: the last name of an id stays
        student_labels ==
            [sid \in DOMAIN total_bookings_per_student |->
                LET last == Max({i \in DOMAIN filtered_data : filtered_data[i].Id_Person = sid})
                IN  <<sid, filtered_data[last].FirstName, total_bookings_per_student[sid]>>]
    IN  [categories |-> categories,
         sets |-> sets,
         sizes |-> VennSubsets(sets),
         total_students |-> Cardinality(UNION {sets[cat] : cat \in Range(categories)}),
         filtered_data |-> filtered_data,
         avg_bookings_per_month |-> avg_bookings_per_month,
         total_bookings_per_student |-> total_bookings_per_student,
         student_labels |-> student_labels]

\* line 175: [sid for sid in students if avg_bookings_per_month.get(sid, 0) >= 2], in tenths
RetentionStudents(students, avg_bookings_per_month) ==
    {sid \in students : sid \in DOMAIN avg_bookings_per_month /\ avg_bookings_per_month[sid] >= 20}

\* create_details_table, lines 169-188: one row per subset that has students,
\* in subset_order.  A row keeps the subset, its students and the retained ones
\* (retention_pct is their share); the rounded averages printed beside them
\* are left out.
RECURSIVE DetailsRowsFrom(_, _, _, _)
DetailsRowsFrom(subset_order, idx, sizes, avg_bookings_per_month) ==
    IF idx > Len(subset_order) THEN <<>>
    ELSE LET students == sizes[subset_order[idx]]
         IN  (IF students = {} THEN <<>>
              ELSE <<[idx |-> idx - 1, subset |-> subset_order[idx], students |-> students,
                      retention_students |-> RetentionStudents(students, avg_bookings_per_month)]>>)
             \o DetailsRowsFrom(subset_order, idx + 1, sizes, avg_bookings_per_month)

create_details_table(sizes, avg_bookings_per_month) ==
    DetailsRowsFrom(<<"100", "010", "001", "110", "101", "011", "111">>, 1,
                    sizes, avg_bookings_per_month)

(***************************************************************************)
(* monthly_user_booking_analysis.calculate_monthly_users                   *)
(***************************************************************************)
\* mutant of UsersAtLeast: a student must exceed the threshold
UsersAtLeast_strict(df, ym, n) ==
    Cardinality({id \in {df[i].Id_Person : i \in DOMAIN df} :
        Cardinality({i \in DOMAIN df :
            df[i].Id_Person = id /\ df[i].Start_Date_time.ym = ym}) > n})

\* lines 107-113: (x >= n).sum() over the (YearMonth, Id_Person) group sizes of month ym
UsersAtLeast(df, ym, n) ==
    Cardinality({id \in {df[i].Id_Person : i \in DOMAIN df} :
        Cardinality({i \in DOMAIN df :
            df[i].Id_Person = id /\ df[i].Start_Date_time.ym = ym}) >= n})

\* the column "Users_>=_{n}" and what pd.merge makes of it
ColumnName(n, suffix) == [n |-> n, suffix |-> suffix]

\* lines 119-121: the column names after the merges; a name that both sides
\* carry gets the suffixes _x (left) and _y (right)
RECURSIVE MergedColumns(_, _, _)
MergedColumns(thresholds, i, names) ==
    IF i > Len(thresholds) THEN names
    ELSE LET new == ColumnName(thresholds[i], "")
         IN  IF new \in Range(names)
             THEN MergedColumns(thresholds, i + 1,
                    [k \in DOMAIN names |->
                        IF names[k] = new THEN ColumnName(thresholds[i], "_x") ELSE names[k]]
                    \o <<ColumnName(thresholds[i], "_y")>>)
             ELSE MergedColumns(thresholds, i + 1, names \o <<new>>)

\* an empty cell of a merged frame (NaN)
MissingCell == -1

\* mutant of ThresholdCounts: a month without a student at the threshold has no row
ThresholdCounts_reached_only(df, n) ==
    LET months == SortedSeq({df[i].Start_Date_time.ym :
                                i \in {j \in DOMAIN df :
                                        /\ df[j].Start_Date_time # NaT
                                        /\ UsersAtLeast(df, df[j].Start_Date_time.ym, n) > 0}})
    IN  [m \in DOMAIN months |->
            [YearMonth |-> FormatYM(months[m]), value |-> UsersAtLeast(df, months[m], n)]]

\* lines 111-117: the frame of one threshold, one row per month of
\* booking_frequencies (groupby drops the NaT month), months ascending
ThresholdCounts(df, n) ==
    LET months == SortedSeq({df[i].Start_Date_time.ym :
                                i \in {j \in DOMAIN df : df[j].Start_Date_time # NaT}})
    IN  [m \in DOMAIN months |->
            [YearMonth |-> FormatYM(months[m]), value |-> UsersAtLeast(df, months[m], n)]]

\* pd.merge(merged_results, counts, on="YearMonth", how="outer"): one row per
\* key of either side, keys ascending; a side without the key gives empty cells
OuterMerge(merged_results, counts, width) ==
    LET keys == SortedSeq({ParsePeriod(merged_results[m].YearMonth) : m \in DOMAIN merged_results}
                          \cup {ParsePeriod(counts[m].YearMonth) : m \in DOMAIN counts})
        left(key) == {m \in DOMAIN merged_results : merged_results[m].YearMonth = key}
        right(key) == {m \in DOMAIN counts : counts[m].YearMonth = key}
    IN  [k \in DOMAIN keys |->
            LET key == FormatYM(keys[k])
            IN  [YearMonth |-> key,
                 values |-> (IF left(key) = {} THEN [c \in 1..width |-> MissingCell]
                             ELSE merged_results[CHOOSE m \in left(key) : TRUE].values)
                            \o <<IF right(key) = {} THEN MissingCell
                                 ELSE counts[CHOOSE m \in right(key) : TRUE].value>>]]

\* lines 119-121: results[0] merged with results[1], results[2], ... in turn
RECURSIVE MergeResults(_, _, _)
MergeResults(results, i, merged_results) ==
    IF i > Len(results) THEN merged_results
    ELSE MergeResults(results, i + 1, OuterMerge(merged_results, results[i], i - 1))

\* Columns: Month, and cells, the threshold columns in order.  thresholds is not empty.
calculate_monthly_users(df, thresholds) ==
    LET results == [k \in DOMAIN thresholds |-> ThresholdCounts(df, thresholds[k])]
        merged_results ==
            MergeResults(results, 2,
                [m \in DOMAIN results[1] |->
                    [YearMonth |-> results[1][m].YearMonth, values |-> <<results[1][m].value>>]])
        names == MergedColumns(thresholds, 1, <<>>)
    IN  [m \in DOMAIN merged_results |->
            [Month |-> merged_results[m].YearMonth,
             cells |-> [k \in DOMAIN thresholds |->
                            [column |-> names[k],
                             value |-> merged_results[m].values[k]]]]]

(***************************************************************************)
(* Input tables.                                                           *)
(***************************************************************************)
PoleFlowStr == <<80, 111, 108, 101, 32, 70, 108, 111, 119>>                                \* "Pole Flow"
SelfPracticeLowerStr == <<115, 101, 108, 102, 32, 112, 114, 97, 99, 116, 105, 99, 101>>    \* "self practice"
SelfPracticeUpperStr == <<83, 69, 76, 70, 32, 80, 82, 65, 67, 84, 73, 67, 69>>             \* "SELF PRACTICE"

Jan2024 == [ym |-> 12 * 2024, day |-> 1, hour |-> 0]
Feb2024 == [ym |-> 12 * 2024 + 1, day |-> 1, hour |-> 0]

\* FirstName of the students of the input tables
NameOf(id) == IF id = 1 THEN "Ann" ELSE IF id = 2 THEN "Bea" ELSE "Cid"

Row(id, name, cls, ts, cat) ==
    [Id_Person |-> id, FirstName |-> name, Class_Name |-> cls,
     Start_Date_time |-> ts, Cateory |-> cat]

\* a key that orders the rows of the input tables
RowKey(r) ==
    <<r.Id_Person, Len(r.Class_Name), r.Class_Name[1], r.Start_Date_time.ym + 1,
      r.Start_Date_time.day, r.Start_Date_time.hour,
      CHOOSE k \in 1..6 : <<"Spin", "Sport", "Choreo", "Virgin", NoCategory, r.Cateory>>[k] = r.Cateory>>

\* the tables of at most n rows over Rows, one per multiset of rows: the
\* functions modelled here group and count, so the order of the rows is immaterial
TablesUpTo(Rows, n) ==
    UNION {{t \in [1..k -> Rows] :
                \A i \in 1..(k - 1) : StrLeq(RowKey(t[i]), RowKey(t[i + 1]))}
            : k \in 0..n}

FreqRows ==
    {Row(id, NameOf(id), cls, ts, "Spin") :
        id \in {1, 2}, cls \in {PoleFlowStr, SelfPracticeLowerStr}, ts \in {Jan2024, Feb2024, NaT}}

\* the period strings the frequency page passes
FreqPeriods == {PeriodStr(Jan2024), PeriodStr(Feb2024)}

(***************************************************************************)
(* Frequency page: the callback reads the table and calls the engine.      *)
(***************************************************************************)
\* the columns of the uploaded spreadsheet that the engine reads
BookingColumns == {"Id_Person", "FirstName", "Class_Name", "Start_Date_time", "Cateory"}

Init ==
    /\ data = <<>>
    /\ columns = BookingColumns
    /\ call = [fn |-> "none"]
    /\ result = <<>>
    /\ pc = "init"

\* df = pd.read_json(stored_data['data']): the table of the frequency page
ReadFreqTable ==
    /\ pc = "init"
    /\ \E t \in TablesUpTo(FreqRows, MaxRows) : data' = t
    /\ pc' = "loaded"
    /\ UNCHANGED <<columns, call, result>>

\* update_outputs, analysis_type = 'Monthly'
FrequencyMonthly ==
    /\ pc = "loaded"
    /\ \E p \in FreqPeriods, mu \in 1..MaxUpperArg :
        /\ call' = [fn |-> "create_frequency_table", period |-> p,
                    start_period |-> <<>>, end_period |-> <<>>, max_upper |-> mu]
        /\ result' = create_frequency_table(data, p, <<>>, <<>>, mu)
    /\ pc' = "done"
    /\ UNCHANGED <<data, columns>>

\* update_outputs, analysis_type = 'Range'
FrequencyRange ==
    /\ pc = "loaded"
    /\ \E s \in FreqPeriods, e \in FreqPeriods, mu \in 1..MaxUpperArg :
        /\ call' = [fn |-> "create_frequency_table", period |-> <<>>,
                    start_period |-> s, end_period |-> e, max_upper |-> mu]
        /\ result' = create_frequency_table(data, <<>>, s, e, mu)
    /\ pc' = "done"
    /\ UNCHANGED <<data, columns>>

Next == ReadFreqTable \/ FrequencyMonthly \/ FrequencyRange

Spec == Init /\ [][Next]_vars


(***************************************************************************)
(* Per-student page: update_graph reads the table and calls                *)
(* calculate_monthly_bookings.                                             *)
(***************************************************************************)
Jan31Evening == [ym |-> 12 * 2024, day |-> 31, hour |-> 18]

\* the (Id_Person, FirstName) pairs of the tables: student 1 was entered under two names
StudentNames == {<<1, "Ann">>, <<1, "Anna">>, <<2, "Bea">>}

StudentRows ==
    {Row(p[1], p[2], cls, ts, "Spin") :
        p \in StudentNames, cls \in {PoleFlowStr, SelfPracticeLowerStr},
        ts \in {Jan2024, Jan31Evening, Feb2024, NaT}}

\* the values of the student selectors that are set, in selector order; student 3 has no row
Selections == UNION {[1..n -> {1, 2, 3}] : n \in 1..2}

ReadStudentTable ==
    /\ pc = "init"
    /\ \E t \in TablesUpTo(StudentRows, MaxRowsStudent) : data' = t
    /\ pc' = "loaded"
    /\ UNCHANGED <<columns, call, result>>

StudentSeries ==
    /\ pc = "loaded"
    /\ \E sel \in Selections, s \in FreqPeriods, e \in FreqPeriods :
        /\ call' = [fn |-> "calculate_monthly_bookings", selected_students |-> sel,
                    start_date |-> s, end_date |-> e]
        /\ result' = calculate_monthly_bookings(data, sel, s, e)
    /\ data' = WithYearMonth(data)
    /\ columns' = columns \cup {"YearMonth"}
    /\ pc' = "done"

NextStudent == ReadStudentTable \/ StudentSeries

SpecStudent == Init /\ [][NextStudent]_vars

(***************************************************************************)
(* Top-20 page: update_top_20_table reads the table and calls              *)
(* calculate_top_20.                                                       *)
(***************************************************************************)
\* student 1 was entered under two names; student 150 sorts after the crowd below
TopNames == {<<1, "Ann">>, <<1, "Anna">>, <<150, "Bea">>}

TopRows ==
    {Row(p[1], p[2], cls, ts, "Spin") :
        p \in TopNames, cls \in {PoleFlowStr, SelfPracticeLowerStr}, ts \in {Jan2024, Feb2024}}

\* n further students, 101..100+n, with one booking each in 2024-01
OneBookingEach(n) == [i \in 1..n |-> Row(100 + i, NameOf(100 + i), PoleFlowStr, Jan2024, "Spin")]

\* the sizes of that crowd: none, or about as many as the ranking takes
CrowdSizes == {0} \cup ((TopN - 1)..(TopN + MaxCrowdOver))

TopTables ==
    {t \o OneBookingEach(n) : t \in TablesUpTo(TopRows, MaxRowsTop), n \in CrowdSizes}

ReadTopTable ==
    /\ pc = "init"
    /\ \E t \in TopTables : data' = t
    /\ pc' = "loaded"
    /\ UNCHANGED <<columns, call, result>>

Top20 ==
    /\ pc = "loaded"
    /\ \E s \in FreqPeriods, e \in FreqPeriods, tie \in (0 - MaxTieShift)..MaxTieShift :
        /\ call' = [fn |-> "calculate_top_20", start_date |-> s, end_date |-> e, tie |-> tie]
        /\ result' = calculate_top_20(data, s, e, tie)
    /\ pc' = "done"
    /\ UNCHANGED <<data, columns>>

NextTop == ReadTopTable \/ Top20

SpecTop == Init /\ [][NextTop]_vars

(***************************************************************************)
(* Distribution page: update_distribution reads the table and calls        *)
(* calculate_distribution.                                                 *)
(***************************************************************************)
AnnTaggedStr == <<65, 110, 110, 32, 40, 65, 49, 41>>      \* "Ann (A1)"
BeaStr == <<66, 101, 97>>                                 \* "Bea"

\* FirstName of the students of the distribution tables
TaggedNameOf(id) == IF id = 1 THEN AnnTaggedStr ELSE BeaStr

\* bookings of every category, and Self Practice rows in two letter cases
DistRows ==
    {Row(id, TaggedNameOf(id), PoleFlowStr, ts, cat) :
        id \in {1, 2}, ts \in {Jan2024, Feb2024},
        cat \in {"Spin", "Sport", "Choreo", "Virgin", NoCategory}}
    \cup
    {Row(id, TaggedNameOf(id), cls, ts, "Spin") :
        id \in {1, 2}, ts \in {Jan2024, Feb2024},
        cls \in {SelfPracticeStr, SelfPracticeLowerStr}}

ReadDistTable ==
    /\ pc = "init"
    /\ \E t \in TablesUpTo(DistRows, MaxRowsDist) : data' = t
    /\ pc' = "loaded"
    /\ UNCHANGED <<columns, call, result>>

Distribution ==
    /\ pc = "loaded"
    /\ \E s \in FreqPeriods, e \in FreqPeriods :
        /\ call' = [fn |-> "calculate_distribution", start_period |-> s, end_period |-> e]
        /\ result' = calculate_distribution(data, s, e)
    /\ pc' = "done"
    /\ UNCHANGED <<data, columns>>

NextDist == ReadDistTable \/ Distribution

SpecDist == Init /\ [][NextDist]_vars

(***************************************************************************)
(* Monthly-threshold page: the filtered table goes to                      *)
(* calculate_monthly_users with the list of thresholds.                    *)
(***************************************************************************)
\* the rows that update_graph's period and Self Practice filters let through
UsersRows ==
    {Row(id, NameOf(id), PoleFlowStr, ts, "Spin") :
        id \in {1, 2}, ts \in {Jan2024, Feb2024, NaT}}

\* the lists the engine is specified for: one to three positive thresholds, none twice
ThresholdLists ==
    {th \in UNION {[1..n -> 1..MaxThreshold] : n \in 1..3} :
        \A i \in DOMAIN th, j \in DOMAIN th : i # j => th[i] # th[j]}

ReadUsersTable ==
    /\ pc = "init"
    /\ \E t \in TablesUpTo(UsersRows, MaxRows) : data' = t
    /\ pc' = "loaded"
    /\ UNCHANGED <<columns, call, result>>

MonthlyUsers ==
    /\ pc = "loaded"
    /\ \E th \in ThresholdLists :
        /\ call' = [fn |-> "calculate_monthly_users", thresholds |-> th]
        /\ result' = calculate_monthly_users(data, th)
    /\ pc' = "done"
    /\ UNCHANGED <<data, columns>>

NextUsers == ReadUsersTable \/ MonthlyUsers

SpecUsers == Init /\ [][NextUsers]_vars

(***************************************************************************)
(* The engine functions side by side: one table handed to each of them,    *)
(* and the same call made a second time on the table as the first call     *)
(* left it.                                                                *)
(***************************************************************************)
\* two students entered under the same FirstName, "Ann (A1)"
EngineRows ==
    {Row(id, AnnTaggedStr, PoleFlowStr, ts, cat) :
        id \in {1, 2}, ts \in {Jan2024, Feb2024}, cat \in {"Spin", "Sport"}}

ReadEngineTable ==
    /\ pc = "init"
    /\ \E t \in TablesUpTo(EngineRows, MaxRowsEngine) : data' = t
    /\ pc' = "loaded"
    /\ UNCHANGED <<columns, call, result>>

\* the call of the record c, made on the table df
EngineCall(c, df) ==
    CASE c.fn = "create_frequency_table" ->
            create_frequency_table(df, c.period, c.start_period, c.end_period, c.max_upper)
      [] c.fn = "calculate_monthly_bookings" ->
            calculate_monthly_bookings(df, c.selected_students, c.start_date, c.end_date)
      [] c.fn = "calculate_top_20" ->
            calculate_top_20(df, c.start_date, c.end_date, c.tie)
      [] c.fn = "calculate_distribution" ->
            calculate_distribution(df, c.start_period, c.end_period)
      [] c.fn = "calculate_monthly_users" ->
            calculate_monthly_users(df, c.thresholds)

\* the caller repeats its last call: same parameters, the table as it is now.
\* The sort of calculate_top_20 is a fixed algorithm, so on the same counts it
\* orders equal counts the same way again.
CallAgain ==
    /\ pc = "done"
    /\ result' = EngineCall(call, data)
    /\ IF call.fn = "calculate_monthly_bookings"
       THEN data' = WithYearMonth(data) /\ columns' = columns \cup {"YearMonth"}
       ELSE UNCHANGED <<data, columns>>
    /\ pc' = "again"
    /\ UNCHANGED call

NextEngine ==
    \/ ReadEngineTable
    \/ FrequencyMonthly
    \/ FrequencyRange
    \/ StudentSeries
    \/ Top20
    \/ Distribution
    \/ MonthlyUsers
    \/ CallAgain

SpecEngine == Init /\ [][NextEngine]_vars

(***************************************************************************)
(* Period parameters as the caller may pass them: the two functions that   *)
(* take period strings and do not rely on a date parser for them, called   *)
(* with well-formed and with malformed strings.  result is the outcome of  *)
(* the call: whether it raised, and the value it returned.                 *)
(***************************************************************************)
UnpaddedJanStr == <<50, 48, 50, 52, 45, 49>>      \* "2024-1"
NotAPeriodStr == <<74, 97, 110>>                  \* "Jan"

PeriodInputs == FreqPeriods \cup {UnpaddedJanStr, NotAPeriodStr}

ReadPeriodTable ==
    /\ pc = "init"
    /\ \E t \in TablesUpTo(FreqRows, MaxRowsEngine) : data' = t
    /\ pc' = "loaded"
    /\ UNCHANGED <<columns, call, result>>

\* create_frequency_table(data, period=p, max_upper=mu): the period is only
\* compared with the month strings of the rows, no statement can raise on it
FrequencyAnyPeriod ==
    /\ pc = "loaded"
    /\ \E p \in PeriodInputs, mu \in 1..MaxUpperArg :
        /\ call' = [fn |-> "create_frequency_table", period |-> p,
                    start_period |-> <<>>, end_period |-> <<>>, max_upper |-> mu]
        /\ result' = [raised |-> FALSE, value |-> create_frequency_table(data, p, <<>>, <<>>, mu)]
    /\ pc' = "done"
    /\ UNCHANGED <<data, columns>>

\* calculate_top_20(df, s, e): the try of lines 25-98 lets no exception out
Top20AnyPeriod ==
    /\ pc = "loaded"
    /\ \E s \in PeriodInputs, e \in PeriodInputs, tie \in (0 - MaxTieShift)..MaxTieShift :
        /\ call' = [fn |-> "calculate_top_20", start_date |-> s, end_date |-> e, tie |-> tie]
        /\ result' = [raised |-> FALSE, value |-> calculate_top_20(data, s, e, tie)]
    /\ pc' = "done"
    /\ UNCHANGED <<data, columns>>

NextPeriod == ReadPeriodTable \/ FrequencyAnyPeriod \/ Top20AnyPeriod

SpecPeriod == Init /\ [][NextPeriod]_vars

(***************************************************************************)
(* The pages as the user sees them.  On a page, result is the page's       *)
(* outputs (what is on screen and in the page's stores), and a callback    *)
(* replaces the outputs it returns a value for; data is the uploaded       *)
(* table in the shared store, which every callback reads afresh; it has    *)
(* rows, or the period selectors of the page would hold no period.         *)
(***************************************************************************)
\* a component property or store that holds nothing (None), or holds v
Absent == [none |-> TRUE, value |-> <<>>]
Present(v) == [none |-> FALSE, value |-> v]

GreenClass == "text-green-600"
YellowClass == "text-yellow-600"
RedClass == "text-red-600"

(***************************************************************************)
(* Top-20 page: update_top_20_table.                                       *)
(***************************************************************************)
\* the outputs as create_top_20_users_layout builds them
Top20Layout ==
    [table_container |-> Absent, style |-> "none", status |-> "", className |-> "mb-4",
     top20_data |-> Absent]

\* mutant of update_top_20_table: the test for the empty result is left out
update_top_20_table_no_empty_test(df, start_period, end_period, tie) ==
    LET top_20_users == calculate_top_20(df, start_period, end_period, tie)
    IN  IF \A r \in DOMAIN top_20_users : "ClassDetails" \notin DOMAIN top_20_users[r]
        THEN [table_container |-> Absent, style |-> "none", status |-> "Error: 'ClassDetails'",
              className |-> RedClass, top20_data |-> Absent]
        ELSE [table_container |-> Present(top_20_users), style |-> "block",
              status |-> "Analysis completed successfully", className |-> GreenClass,
              top20_data |-> Present(top_20_users)]

\* lines 148-253, the button pressed and both periods set.  The pivot of
\* line 166 reads the column 'ClassDetails'; a result that lacks it raises
\* KeyError, which the handler of line 244 reports.  The rendered table is
\* kept as the rows it is built from.
update_top_20_table(df, start_period, end_period, tie) ==
    LET top_20_users == calculate_top_20(df, start_period, end_period, tie)
    IN  IF top_20_users = <<>>
        THEN [table_container |-> Absent, style |-> "none",
              status |-> "No data found for selected period", className |-> YellowClass,
              top20_data |-> Absent]
        ELSE IF \E r \in DOMAIN top_20_users : "ClassDetails" \notin DOMAIN top_20_users[r]
        THEN [table_container |-> Absent, style |-> "none", status |-> "Error: 'ClassDetails'",
              className |-> RedClass, top20_data |-> Absent]
        ELSE [table_container |-> Present(top_20_users), style |-> "block",
              status |-> "Analysis completed successfully", className |-> GreenClass,
              top20_data |-> Present(top_20_users)]

ReadTopPageTable ==
    /\ pc = "init"
    /\ \E t \in TablesUpTo(TopRows, MaxRowsEngine) \ {<<>>} : data' = t
    /\ result' = Top20Layout
    /\ pc' = "loaded"
    /\ UNCHANGED <<columns, call>>

UpdateTop20Table ==
    /\ pc \in {"loaded", "done"}
    /\ \E s \in FreqPeriods, e \in FreqPeriods, tie \in (0 - MaxTieShift)..MaxTieShift :
        /\ call' = [fn |-> "update_top_20_table", start_date |-> s, end_date |-> e, tie |-> tie]
        /\ result' = update_top_20_table(data, s, e, tie)
    /\ pc' = "done"
    /\ UNCHANGED <<data, columns>>

NextTopPage == ReadTopPageTable \/ UpdateTop20Table

SpecTopPage == Init /\ [][NextTopPage]_vars

(***************************************************************************)
(* Per-student page: update_graph and export_chart_data.                   *)
(***************************************************************************)
\* the outputs as the layout builds them
StudentLayout ==
    [figure |-> <<>>, style |-> "none", status |-> "", className |-> "mb-4",
     chart_data |-> Absent, download |-> Absent]

\* lines 119-130: one trace per selected student, name and values from the student's rows
RECURSIVE Traces(_, _, _)
Traces(bookings, selected_students, i) ==
    IF i > Len(selected_students) THEN <<>>
    ELSE LET student_data ==
                Keep(bookings,
                     {k \in DOMAIN bookings : bookings[k].Id_Person = selected_students[i]}, 1)
         IN  <<[name |-> <<student_data[1].FirstName, selected_students[i]>>,
                x |-> [k \in DOMAIN student_data |-> student_data[k].YearMonth],
                y |-> [k \in DOMAIN student_data |-> student_data[k].Bookings]]>>
             \o Traces(bookings, selected_students, i + 1)

\* lines 105-164, on the outputs screen.  selected_students is the list of the
\* selectors that are set.  .iloc[0] on a student without rows in bookings
\* raises IndexError; dash.no_update leaves the figure as it is.
update_graph(screen, df, selected_students, start_period, end_period) ==
    LET bookings == calculate_monthly_bookings(df, selected_students, start_period, end_period)
        failed(message) ==
            [screen EXCEPT !.style = "none", !.status = message, !.className = RedClass,
                           !.chart_data = Absent]
    IN  IF selected_students = <<>>
        THEN failed("Error: Please select at least one student")
        ELSE IF \E i \in DOMAIN selected_students :
                    \A k \in DOMAIN bookings : bookings[k].Id_Person # selected_students[i]
        THEN failed("Error: single positional indexer is out-of-bounds")
        ELSE [screen EXCEPT !.figure = Traces(bookings, selected_students, 1),
                            !.style = "block",
                            !.status = "Analysis completed successfully",
                            !.className = GreenClass,
                            !.chart_data = Present(bookings)]

\* lines 183-200, on the outputs screen: PreventUpdate leaves the download as it is
export_chart_data(screen, df, selected_students, start_period, end_period) ==
    IF selected_students = <<>> THEN screen
    ELSE [screen EXCEPT !.download =
            Present(calculate_monthly_bookings(df, selected_students, start_period, end_period))]

\* student 1 has rows in some tables, student 3 has none in any
PageRows ==
    {Row(1, NameOf(1), cls, ts, "Spin") :
        cls \in {PoleFlowStr, SelfPracticeLowerStr}, ts \in {Jan2024, Feb2024}}

\* the values of the student selectors that are set, in selector order
PageSelections == UNION {[1..n -> {1, 3}] : n \in 0..2}

ReadStudentPageTable ==
    /\ pc = "init"
    /\ \E t \in TablesUpTo(PageRows, MaxRowsEngine) \ {<<>>} : data' = t
    /\ result' = StudentLayout
    /\ pc' = "loaded"
    /\ UNCHANGED <<columns, call>>

UpdateGraph ==
    /\ pc \in {"loaded", "done"}
    /\ \E sel \in PageSelections, s \in FreqPeriods, e \in FreqPeriods :
        /\ call' = [fn |-> "update_graph", selected_students |-> sel,
                    start_date |-> s, end_date |-> e]
        /\ result' = update_graph(result, data, sel, s, e)
    /\ pc' = "done"
    /\ UNCHANGED <<data, columns>>

ExportChartData ==
    /\ pc \in {"loaded", "done"}
    /\ \E sel \in PageSelections, s \in FreqPeriods, e \in FreqPeriods :
        /\ call' = [fn |-> "export_chart_data", selected_students |-> sel,
                    start_date |-> s, end_date |-> e]
        /\ result' = export_chart_data(result, data, sel, s, e)
    /\ pc' = "done"
    /\ UNCHANGED <<data, columns>>

NextStudentPage == ReadStudentPageTable \/ UpdateGraph \/ ExportChartData

SpecStudentPage == Init /\ [][NextStudentPage]_vars

(***************************************************************************)
(* Frequency page, tables in any row order.                                *)
(***************************************************************************)
DetailsRows ==
    {Row(id, NameOf(id), PoleFlowStr, ts, "Spin") : id \in {1, 2}, ts \in {Jan2024, Feb2024}}

ReadDetailsTable ==
    /\ pc = "init"
    /\ \E k \in 0..MaxRowsEngine : \E t \in [1..k -> DetailsRows] : data' = t
    /\ pc' = "loaded"
    /\ UNCHANGED <<columns, call, result>>

NextDetails == ReadDetailsTable \/ FrequencyMonthly \/ FrequencyRange

SpecDetails == Init /\ [][NextDetails]_vars

(***************************************************************************)
(* Distribution page, the details table: update_distribution calls         *)
(* calculate_distribution and create_details_table.                        *)
(***************************************************************************)
\* n bookings of student id, all in 2024-01
ManyBookings(id, n) == [i \in 1..n |-> Row(id, TaggedNameOf(id), PoleFlowStr, Jan2024, "Spin")]

\* a regular student and an occasional one
RetentionTables == {ManyBookings(1, n) \o ManyBookings(2, m) : n \in 0..MaxBookings, m \in 0..2}

\* windows of 1, 2 and LongWindow months from 2024-01
RetentionEnds == {FormatYM(Jan2024.ym + k - 1) : k \in {1, 2, LongWindow}}

ReadRetentionTable ==
    /\ pc = "init"
    /\ \E t \in RetentionTables : data' = t
    /\ pc' = "loaded"
    /\ UNCHANGED <<columns, call, result>>

\* update_distribution, lines 315-321, the diagram aside
DetailsTable ==
    /\ pc = "loaded"
    /\ \E e \in RetentionEnds :
        LET d == calculate_distribution(data, PeriodStr(Jan2024), e)
        IN  /\ call' = [fn |-> "create_details_table",
                        start_period |-> PeriodStr(Jan2024), end_period |-> e]
            /\ result' = create_details_table(d.sizes, d.avg_bookings_per_month)
    /\ pc' = "done"
    /\ UNCHANGED <<data, columns>>

NextRetention == ReadRetentionTable \/ DetailsTable

SpecRetention == Init /\ [][NextRetention]_vars

(***************************************************************************)
(* Top-20 page, tables in any row order.                                   *)
(***************************************************************************)
ReadTopOrderTable ==
    /\ pc = "init"
    /\ \E k \in 0..MaxRowsEngine : \E t \in [1..k -> TopRows] : data' = t
    /\ pc' = "loaded"
    /\ UNCHANGED <<columns, call, result>>

NextTopOrder == ReadTopOrderTable \/ Top20

SpecTopOrder == Init /\ [][NextTopOrder]_vars

(***************************************************************************)
(* Monthly-threshold page: update_graph and export_chart_data of           *)
(* monthly_user_booking_analysis.                                          *)
(***************************************************************************)
\* the outputs as create_monthly_user_booking_layout builds them
UsersLayout ==
    [figure |-> Absent, style |-> "none", status |-> "", className |-> "mb-4",
     chart_data |-> Absent, download |-> Absent]

\* mutant of ThresholdList: the inputs are passed on as they are
ThresholdList_unfiltered(threshold1, threshold2, threshold3) ==
    <<threshold1, threshold2, threshold3>>

\* line 175: [t for t in [threshold1, threshold2, threshold3] if t > 0]
ThresholdList(threshold1, threshold2, threshold3) ==
    SelectSeq(<<threshold1, threshold2, threshold3>>, LAMBDA t : t > 0)

\* lines 167-173: the rows of the window, Self Practice excluded
WindowData(df, start_period, end_period) ==
    ExcludeSelfPractice(PeriodFilter(df, <<>>, start_period, end_period))

\* lines 176-179: the engine calls that update_graph makes
users_engine_calls(threshold1, threshold2, threshold3) ==
    LET thresholds == ThresholdList(threshold1, threshold2, threshold3)
    IN  IF thresholds = <<>> THEN <<>>
        ELSE <<[fn |-> "calculate_monthly_users", thresholds |-> thresholds]>>

\* lines 180-181: the rows of filtered_data per month of stats
TotalBookings(filtered_data, stats) ==
    [m \in DOMAIN stats |->
        Cardinality({i \in DOMAIN filtered_data :
                        PeriodStr(filtered_data[i].Start_Date_time) = stats[m].Month})]

\* stats[column] on the merged result: the cells of the column of that name
StatsColumn(stats, column) ==
    [m \in DOMAIN stats |->
        LET c == CHOOSE c \in DOMAIN stats[m].cells : stats[m].cells[c].column = column
        IN  stats[m].cells[c].value]

\* lines 164-257, on the outputs screen.  stats[f"Users_>=_{n}"] (lines 189-195)
\* raises KeyError when the merge has renamed the column; dash.no_update
\* leaves the figure as it is.
users_update_graph(screen, df, start_period, end_period, threshold1, threshold2, threshold3) ==
    LET filtered_data == WindowData(df, start_period, end_period)
        thresholds == ThresholdList(threshold1, threshold2, threshold3)
        stats == calculate_monthly_users(filtered_data, thresholds)
        names == MergedColumns(thresholds, 1, <<>>)
        total_bookings == TotalBookings(filtered_data, stats)
        failed(message) ==
            [screen EXCEPT !.style = "none", !.status = message, !.className = RedClass,
                           !.chart_data = Absent]
    IN  IF thresholds = <<>>
        THEN failed("Error: Please set at least one threshold greater than 0")
        ELSE IF \E k \in DOMAIN thresholds : ColumnName(thresholds[k], "") \notin Range(names)
        THEN failed("Error: 'Users_>=_{n}'")
        ELSE [screen EXCEPT
                !.figure = Present(
                    [k \in DOMAIN thresholds |->
                        [name |-> thresholds[k],
                         x |-> [m \in DOMAIN stats |-> stats[m].Month],
                         y |-> StatsColumn(stats, ColumnName(thresholds[k], ""))]]
                    \o <<[name |-> 0,
                          x |-> [m \in DOMAIN stats |-> stats[m].Month],
                          y |-> total_bookings]>>),
                !.style = "block",
                !.status = "Analysis completed successfully",
                !.className = GreenClass,
                !.chart_data = Present(
                    [m \in DOMAIN stats |->
                        [Month |-> stats[m].Month, cells |-> stats[m].cells,
                         Total_Bookings |-> total_bookings[m]]])]

\* lines 265-276, on the outputs screen: the file is the chart-data store as
\* update_graph left it; PreventUpdate leaves the download as it is
users_export_chart_data(screen) ==
    IF screen.chart_data = Absent THEN screen
    ELSE [screen EXCEPT !.download = screen.chart_data]

UsersPageRows ==
    {Row(id, NameOf(id), cls, ts, "Spin") :
        id \in {1, 2}, cls \in {PoleFlowStr, SelfPracticeLowerStr}, ts \in {Jan2024, Feb2024}}

\* the values of the three threshold inputs (min=0)
ThresholdInputs == 0..MaxThreshold

ReadUsersPageTable ==
    /\ pc = "init"
    /\ \E t \in TablesUpTo(UsersPageRows, MaxRowsEngine) \ {<<>>} : data' = t
    /\ result' = UsersLayout
    /\ pc' = "loaded"
    /\ UNCHANGED <<columns, call>>

UsersUpdateGraph ==
    /\ pc = "loaded"
    /\ \E s \in FreqPeriods, e \in FreqPeriods,
          t1 \in ThresholdInputs, t2 \in ThresholdInputs, t3 \in ThresholdInputs :
        /\ call' = [fn |-> "update_graph", start_date |-> s, end_date |-> e,
                    threshold1 |-> t1, threshold2 |-> t2, threshold3 |-> t3,
                    engine |-> users_engine_calls(t1, t2, t3)]
        /\ result' = users_update_graph(result, data, s, e, t1, t2, t3)
    /\ pc' = "done"
    /\ UNCHANGED <<data, columns>>

UsersExportChartData ==
    /\ pc = "done"
    /\ result' = users_export_chart_data(result)
    /\ pc' = "exported"
    /\ UNCHANGED <<data, columns, call>>

NextUsersPage == ReadUsersPageTable \/ UsersUpdateGraph \/ UsersExportChartData

SpecUsersPage == Init /\ [][NextUsersPage]_vars

(***************************************************************************)
(* Frequency page, the period selector: update_period_selector builds the  *)
(* dropdowns from the stored table, update_outputs passes their values.    *)
(***************************************************************************)
\* sorted(S) for a finite set of Python strings
RECURSIVE SortedStrings(_)
SortedStrings(S) ==
    IF S = {} THEN <<>>
    ELSE LET first == CHOOSE x \in S : \A y \in S : StrLeq(x, y)
         IN  <<first>> \o SortedStrings(S \ {first})

\* the dropdown of the 'Monthly' analysis; periods is not empty
get_monthly_selector(periods) ==
    <<[mode |-> "monthly", options |-> periods, value |-> periods[Len(periods)]]>>

\* the two dropdowns of the 'Range' analysis; periods is not empty
get_range_selector(periods) ==
    <<[mode |-> "start", options |-> periods, value |-> periods[1]],
      [mode |-> "end", options |-> periods, value |-> periods[Len(periods)]]>>

\* callbacks.py lines 25-27
update_period_selector(df, analysis_type) ==
    LET periods == SortedStrings({PeriodStr(df[i].Start_Date_time) : i \in DOMAIN df})
    IN  IF analysis_type = "Monthly" THEN get_monthly_selector(periods)
        ELSE get_range_selector(periods)

ReadSelectorTable ==
    /\ pc = "init"
    /\ \E t \in TablesUpTo(FreqRows, MaxRowsEngine) \ {<<>>} : data' = t
    /\ pc' = "loaded"
    /\ UNCHANGED <<columns, call, result>>

UpdatePeriodSelector ==
    /\ pc = "loaded"
    /\ \E analysis_type \in {"Monthly", "Range"} :
        /\ call' = [fn |-> "update_period_selector", analysis_type |-> analysis_type]
        /\ result' = update_period_selector(data, analysis_type)
    /\ pc' = "selector"
    /\ UNCHANGED <<data, columns>>

\* update_outputs, analysis_type = 'Monthly', with a value of the dropdown
SelectedMonthly ==
    /\ pc = "selector"
    /\ call.analysis_type = "Monthly"
    /\ \E p \in Range(result[1].options), mu \in 1..MaxUpperArg :
        /\ call' = [fn |-> "create_frequency_table", period |-> p,
                    start_period |-> <<>>, end_period |-> <<>>, max_upper |-> mu,
                    preselected |-> (p = result[1].value)]
        /\ result' = create_frequency_table(data, p, <<>>, <<>>, mu)
    /\ pc' = "done"
    /\ UNCHANGED <<data, columns>>

\* update_outputs, analysis_type = 'Range', with values of the two dropdowns
SelectedRange ==
    /\ pc = "selector"
    /\ call.analysis_type = "Range"
    /\ \E s \in Range(result[1].options), e \in Range(result[2].options), mu \in 1..MaxUpperArg :
        /\ call' = [fn |-> "create_frequency_table", period |-> <<>>,
                    start_period |-> s, end_period |-> e, max_upper |-> mu,
                    preselected |-> (s = result[1].value /\ e = result[2].value)]
        /\ result' = create_frequency_table(data, <<>>, s, e, mu)
    /\ pc' = "done"
    /\ UNCHANGED <<data, columns>>

NextSelector == ReadSelectorTable \/ UpdatePeriodSelector \/ SelectedMonthly \/ SelectedRange

SpecSelector == Init /\ [][NextSelector]_vars

(***************************************************************************)
(* The two pages whose analysis takes a list of selections: the            *)
(* monthly-threshold page and the per-student page, on one stored table.   *)
(***************************************************************************)
\* monthly_booking_student_callbacks lines 107-113: the engine calls that
\* update_graph makes
student_engine_calls(selected_students, start_period, end_period) ==
    IF selected_students = <<>> THEN <<>>
    ELSE <<[fn |-> "calculate_monthly_bookings", selected_students |-> selected_students,
            start_date |-> start_period, end_date |-> end_period]>>

ReadSelectionTable ==
    /\ pc = "init"
    /\ \E t \in TablesUpTo(PageRows, MaxRowsEngine) \ {<<>>} : data' = t
    /\ result' = [users |-> UsersLayout, student |-> StudentLayout]
    /\ pc' = "loaded"
    /\ UNCHANGED <<columns, call>>

\* Execute on the monthly-threshold page
SelectionUsersGraph ==
    /\ pc = "loaded"
    /\ \E s \in FreqPeriods, e \in FreqPeriods,
          t1 \in ThresholdInputs, t2 \in ThresholdInputs, t3 \in ThresholdInputs :
        /\ call' = [fn |-> "update_graph", page |-> "users", start_date |-> s, end_date |-> e,
                    selection |-> <<t1, t2, t3>>,
                    engine |-> users_engine_calls(t1, t2, t3)]
        /\ result' = [result EXCEPT !.users = users_update_graph(@, data, s, e, t1, t2, t3)]
    /\ pc' = "done"
    /\ UNCHANGED <<data, columns>>

\* Execute on the per-student page; calculate_monthly_bookings adds the
\* YearMonth column to the table it is given, which is the callback's own
\* copy read from the store
SelectionStudentGraph ==
    /\ pc = "loaded"
    /\ \E sel \in PageSelections, s \in FreqPeriods, e \in FreqPeriods :
        /\ call' = [fn |-> "update_graph", page |-> "student", start_date |-> s, end_date |-> e,
                    selection |-> sel,
                    engine |-> student_engine_calls(sel, s, e)]
        /\ result' = [result EXCEPT !.student = update_graph(@, data, sel, s, e)]
    /\ pc' = "done"
    /\ UNCHANGED <<data, columns>>

NextSelection == ReadSelectionTable \/ SelectionUsersGraph \/ SelectionStudentGraph

SpecSelection == Init /\ [][NextSelection]_vars

(***************************************************************************)
(* A browsing session: the upload of the application shell writes the      *)
(* shared store; the monthly-threshold page or the per-student page is     *)
(* shown and its callbacks read the store.  The period dropdowns keep the  *)
(* values the page's dropdown callback gives them.                         *)
(***************************************************************************)
\* the components of a page as its layout builds them
SessionScreen(page) ==
    [page |-> page, options |-> <<>>, start |-> Absent, end |-> Absent,
     outputs |-> IF page = "users" THEN UsersLayout ELSE StudentLayout]

\* app.py lines 95-105; contents is Absent for a file that read_excel cannot
\* parse and holds the parsed table otherwise
store_shared_data(contents) ==
    IF contents = Absent
    THEN [store |-> Absent, feedback |-> "Error: {error}", className |-> "mt-2 text-red-600"]
    ELSE [store |-> contents, feedback |-> "File uploaded: {filename}",
          className |-> "mt-2 text-green-600"]

\* update_period_dropdowns of the monthly-threshold page (lines 135-143) and
\* update_dropdowns of the per-student page (lines 63-83), on the screen;
\* the tables of the session have no missing date
update_period_dropdowns(screen, stored_data) ==
    IF stored_data = Absent
    THEN [screen EXCEPT !.options = <<>>, !.start = Absent, !.end = Absent]
    ELSE LET df == stored_data.value
             periods == SortedStrings({PeriodStr(df[i].Start_Date_time) : i \in DOMAIN df})
         IN  [screen EXCEPT !.options = periods,
                            !.start = Present(periods[1]),
                            !.end = Present(periods[Len(periods)])]

SessionRows == {Row(1, NameOf(1), PoleFlowStr, ts, "Spin") : ts \in {Jan2024, Feb2024}}

\* the tables of the files that parse
SessionTables == TablesUpTo(SessionRows, MaxRowsEngine) \ {<<>>}

\* the values of the three threshold inputs used in the session
SessionThresholds == {<<1, 2, 0>>, <<0, 0, 0>>}

\* the page is opened before any upload: the store holds nothing
StartSession ==
    /\ pc = "init"
    /\ data' = Absent
    /\ \E page \in {"users", "student"} :
        /\ call' = [fn |-> "display_page", page |-> page]
        /\ result' = [feedback |-> "", className |-> "",
                      screen |-> update_period_dropdowns(SessionScreen(page), Absent)]
    /\ pc' = "session"
    /\ UNCHANGED columns

\* display_page: the page's components are built anew, and its dropdown
\* callback runs on the store
Navigate ==
    /\ pc = "session"
    /\ \E page \in {"users", "student"} :
        /\ call' = [fn |-> "display_page", page |-> page]
        /\ result' = [result EXCEPT
                        !.screen = update_period_dropdowns(SessionScreen(page), data)]
    /\ UNCHANGED <<data, columns, pc>>

\* store_shared_data on a new upload, and the dropdown callback that the
\* changed store triggers on the page shown
UploadFile ==
    /\ pc = "session"
    /\ \E contents \in {Absent} \cup {Present(t) : t \in SessionTables} :
        LET r == store_shared_data(contents)
        IN  /\ call' = [fn |-> "store_shared_data", parsed |-> contents # Absent]
            /\ data' = r.store
            /\ result' = [feedback |-> r.feedback, className |-> r.className,
                          screen |-> update_period_dropdowns(result.screen, r.store)]
    /\ UNCHANGED <<columns, pc>>

\* Execute on the page shown; without a stored table the callback raises PreventUpdate
SessionExecute ==
    /\ pc = "session"
    /\ data # Absent
    /\ \/ /\ result.screen.page = "users"
          /\ \E th \in SessionThresholds :
                /\ call' = [fn |-> "update_graph", page |-> "users", selection |-> th]
                /\ result' = [result EXCEPT !.screen.outputs =
                                users_update_graph(@, data.value, result.screen.start.value,
                                                   result.screen.end.value, th[1], th[2], th[3])]
       \/ /\ result.screen.page = "student"
          /\ \E sel \in PageSelections :
                /\ call' = [fn |-> "update_graph", page |-> "student", selection |-> sel]
                /\ result' = [result EXCEPT !.screen.outputs =
                                update_graph(@, data.value, sel, result.screen.start.value,
                                             result.screen.end.value)]
    /\ UNCHANGED <<data, columns, pc>>

\* Export on the page shown: the monthly-threshold page sends its chart-data
\* store, the per-student page computes the file from the shared store
SessionExport ==
    /\ pc = "session"
    /\ \/ /\ result.screen.page = "users"
          /\ call' = [fn |-> "export_chart_data", page |-> "users", selection |-> <<>>,
                      emitted |-> result.screen.outputs.chart_data # Absent]
          /\ result' = [result EXCEPT !.screen.outputs = users_export_chart_data(@)]
       \/ /\ result.screen.page = "student"
          /\ data # Absent
          /\ \E sel \in PageSelections :
                /\ call' = [fn |-> "export_chart_data", page |-> "student", selection |-> sel,
                            emitted |-> sel # <<>>]
                /\ result' = [result EXCEPT !.screen.outputs =
                                export_chart_data(@, data.value, sel, result.screen.start.value,
                                                  result.screen.end.value)]
    /\ UNCHANGED <<data, columns, pc>>

NextSession == StartSession \/ Navigate \/ UploadFile \/ SessionExecute \/ SessionExport

SpecSession == Init /\ [][NextSession]_vars

(***************************************************************************)
(* Distribution page, the divisions: update_distribution and               *)
(* export_venn_to_excel, with every division they carry out recorded by    *)
(* its place and its divisor.                                              *)
(***************************************************************************)
Division(site, divisor) == [site |-> site, divisor |-> divisor]

\* line 78: one division by total_months per student of filtered_data
DistributionDivisions(df, start_period, end_period) ==
    {Division("avg_bookings_per_month", TotalMonths(start_period, end_period)) :
        sid \in DOMAIN GroupSizeById(DistributionFilter(df, start_period, end_period))}

\* generate_venn_diagram lines 119-122 and 137, create_excel_export's summary:
\* x / total_students * 100 if total_students > 0 else 0
ShareDivisions(site, total_students) ==
    IF total_students > 0 THEN {Division(site, total_students)} ELSE {}

\* mutant of SubsetDivisions: the subsets without students are not skipped
SubsetDivisions_no_skip(sizes, total_students, avg_bookings_per_month) ==
    UNION {
        LET students == sizes[subset]
            retention_students ==
                IF students = {} THEN {}
                ELSE RetentionStudents(students, avg_bookings_per_month)
        IN  (IF students # {}
             THEN {Division("avg_bookings", Cardinality(students)),
                   Division("retention_pct", Cardinality(students))}
             ELSE {})
            \cup (IF retention_students # {}
                  THEN {Division("avg_booking_retention", Cardinality(retention_students))}
                  ELSE {})
            \cup {Division("percentage", total_students)}
        : subset \in DOMAIN sizes}

\* create_details_table lines 169-183 and create_excel_export lines 230-245:
\* for every subset that has students, the divisions by len(students), by
\* len(retention_students) if there are any, and by total_students
SubsetDivisions(sizes, total_students, avg_bookings_per_month) ==
    UNION {
        LET students == sizes[subset]
            retention_students == RetentionStudents(students, avg_bookings_per_month)
        IN  {Division("avg_bookings", Cardinality(students)),
             Division("retention_pct", Cardinality(students))}
            \cup (IF retention_students # {}
                  THEN {Division("avg_booking_retention", Cardinality(retention_students))}
                  ELSE {})
            \cup {Division("percentage", total_students)}
        : subset \in {k \in DOMAIN sizes : sizes[k] # {}}}

\* the divisions of calculate_distribution and what follows it; a division by
\* zero in calculate_distribution raises before the rest is reached
DivisionsOf(df, start_period, end_period) ==
    LET first == DistributionDivisions(df, start_period, end_period)
    IN  IF \E x \in first : x.divisor = 0 THEN first
        ELSE LET d == calculate_distribution(df, start_period, end_period)
             IN  first \cup ShareDivisions("share", d.total_students)
                       \cup SubsetDivisions(d.sizes, d.total_students, d.avg_bookings_per_month)

\* lines 313-332: the outputs, with the divisions carried out
update_distribution(df, start_period, end_period) ==
    LET divisions == DivisionsOf(df, start_period, end_period)
        d == calculate_distribution(df, start_period, end_period)
    IN  IF \E x \in divisions : x.divisor = 0
        THEN [table |-> Absent, style |-> "none", status |-> "Error: division by zero",
              className |-> RedClass, divisions |-> divisions]
        ELSE [table |-> Present(create_details_table(d.sizes, d.avg_bookings_per_month)),
              style |-> "block", status |-> "Analysis completed successfully",
              className |-> GreenClass, divisions |-> divisions]

\* lines 285-297: the Details sheet of the file, with the divisions carried
\* out; an exception here is not caught and no file is sent
export_venn_to_excel(df, start_period, end_period) ==
    LET divisions == DivisionsOf(df, start_period, end_period)
        d == calculate_distribution(df, start_period, end_period)
    IN  IF \E x \in divisions : x.divisor = 0
        THEN [table |-> Absent, style |-> "none", status |-> "ZeroDivisionError",
              className |-> "", divisions |-> divisions]
        ELSE [table |-> Present(create_details_table(d.sizes, d.avg_bookings_per_month)),
              style |-> "none", status |-> "", className |-> "", divisions |-> divisions]

\* bookings of the three categories and of a fourth one that no set takes
DivisionRows ==
    {Row(id, TaggedNameOf(id), PoleFlowStr, ts, cat) :
        id \in {1, 2}, ts \in {Jan2024, Feb2024}, cat \in {"Spin", "Sport", "Choreo", "Other"}}

ReadDivisionTable ==
    /\ pc = "init"
    /\ \E t \in TablesUpTo(DivisionRows, MaxRowsDist) \ {<<>>} : data' = t
    /\ pc' = "loaded"
    /\ UNCHANGED <<columns, call, result>>

UpdateDistribution ==
    /\ pc = "loaded"
    /\ \E s \in FreqPeriods, e \in FreqPeriods :
        /\ call' = [fn |-> "update_distribution", start_period |-> s, end_period |-> e]
        /\ result' = update_distribution(data, s, e)
    /\ pc' = "done"
    /\ UNCHANGED <<data, columns>>

ExportVennToExcel ==
    /\ pc = "loaded"
    /\ \E s \in FreqPeriods, e \in FreqPeriods :
        /\ call' = [fn |-> "export_venn_to_excel", start_period |-> s, end_period |-> e]
        /\ result' = export_venn_to_excel(data, s, e)
    /\ pc' = "done"
    /\ UNCHANGED <<data, columns>>

NextDivision == ReadDivisionTable \/ UpdateDistribution \/ ExportVennToExcel

SpecDivision == Init /\ [][NextDivision]_vars

(***************************************************************************)
(* Properties of the frequency table.                                      *)
(***************************************************************************)
RECURSIVE SumSeq(_, _)
SumSeq(s, i) == IF i > Len(s) THEN 0 ELSE s[i] + SumSeq(s, i + 1)

\* the class names of the input tables that are Self Practice, in some letter case
SelfPracticeNames == {SelfPracticeStr, SelfPracticeLowerStr, SelfPracticeUpperStr}

FreqDone == pc = "done" /\ call.fn = "create_frequency_table"

\* the months (as 12 * year + month - 1) of the window of the last call
WindowMonths ==
    IF call.period # <<>> THEN {ParsePeriod(call.period)}
    ELSE ParsePeriod(call.start_period)..ParsePeriod(call.end_period)

\* the rows of data that are bookings of student id in month ym, Self Practice aside
BookingsIn(id, ym) ==
    {i \in DOMAIN data :
        /\ data[i].Id_Person = id
        /\ data[i].Start_Date_time # NaT
        /\ data[i].Start_Date_time.ym = ym
        /\ data[i].Class_Name \notin SelfPracticeNames}

\* the students with at least one such booking in the window
WindowStudents ==
    {id \in {data[i].Id_Person : i \in DOMAIN data} :
        \E ym \in WindowMonths : BookingsIn(id, ym) # {}}

RECURSIVE SumOver(_, _)
SumOver(S, id) ==
    IF S = {} THEN 0
    ELSE LET ym == Min(S) IN Cardinality(BookingsIn(id, ym)) + SumOver(S \ {ym}, id)

\* the bookings of a student over the whole window, summed month by month
PooledCount(id) == SumOver(WindowMonths, id)

\* C1: the #Students cells of the max_upper + 1 rows sum to the number of
\* distinct students with at least one non-Self-Practice booking in the window.
C1_SumOfBins ==
    FreqDone =>
        /\ Len(result) = call.max_upper + 1
        /\ SumSeq([i \in DOMAIN result |-> result[i].Students], 1) = Cardinality(WindowStudents)

\* two students of the window in different bins, one of them in the overflow
\* bin, next to a Self Practice row that is left out
C1_Witness ==
    /\ FreqDone
    /\ Cardinality(WindowStudents) = 2
    /\ result[Len(result)].Students = 1
    /\ result[1].Students = 1
    /\ \E i \in DOMAIN data : data[i].Class_Name \in SelfPracticeNames

\* C2: for every numeric bin i, Cum1[i] + CumEnd[i] is the number of students
\* of the window, and Cum1[max_upper] + #Students of the overflow bin is too.
C2_CumulativeInvariant ==
    FreqDone =>
        /\ \A i \in 1..call.max_upper :
            result[i].Cum1 + result[i].CumEnd = Cardinality(WindowStudents)
        /\ result[call.max_upper].Cum1 + result[call.max_upper + 1].Students
                = Cardinality(WindowStudents)

\* a bin with students on both sides of it, and a student in the overflow bin
C2_Witness ==
    /\ FreqDone
    /\ call.max_upper >= 2
    /\ result[1].Cum1 = 1
    /\ result[1].CumEnd = 1
    /\ result[call.max_upper + 1].Students = 1

\* C10: for a period range each student is counted in the one bin of the
\* student's bookings summed over all months of the range.
C10_PooledRange ==
    (FreqDone /\ call.period = <<>>) =>
        /\ \A i \in 1..call.max_upper :
            result[i].Students = Cardinality({id \in WindowStudents : PooledCount(id) = i})
        /\ result[call.max_upper + 1].Students
                = Cardinality({id \in WindowStudents : PooledCount(id) > call.max_upper})

\* the scenario of the claim: 3 bookings in 2024-01 and 1 in 2024-02,
\* max_upper = 5, range 2024-01..2024-02: bin 4 holds the student, no other bin does
C10_Witness ==
    /\ FreqDone
    /\ call.period = <<>>
    /\ call.start_period = PeriodStr(Jan2024)
    /\ call.end_period = PeriodStr(Feb2024)
    /\ call.max_upper = 5
    /\ Cardinality(BookingsIn(1, Jan2024.ym)) = 3
    /\ Cardinality(BookingsIn(1, Feb2024.ym)) = 1
    /\ \A i \in DOMAIN result : result[i].Students = (IF i = 4 THEN 1 ELSE 0)

(***************************************************************************)
(* Properties of the per-student monthly series.                           *)
(***************************************************************************)
StudentDone == pc = "done" /\ call.fn = "calculate_monthly_bookings"

\* C3: for a non-empty selection and start <= end the result has exactly
\* months x |selected| rows, every (month, selected student) combination once,
\* and a combination without bookings has Bookings = 0.
C3_DenseSeries ==
    (StudentDone /\ ParsePeriod(call.start_date) <= ParsePeriod(call.end_date)) =>
        LET months == ParsePeriod(call.start_date)..ParsePeriod(call.end_date)
            selected == Range(call.selected_students)
        IN  /\ Len(result) = Cardinality(months) * Cardinality(selected)
            /\ \A ym \in months, id \in selected :
                Cardinality({k \in DOMAIN result :
                                /\ result[k].YearMonth = FormatYM(ym)
                                /\ result[k].Id_Person = id}) = 1
            /\ \A k \in DOMAIN result :
                BookingsIn(result[k].Id_Person, ParsePeriod(result[k].YearMonth)) = {}
                    => result[k].Bookings = 0

\* C7: an engine call leaves the caller's table as it was: same columns, same rows.
C7_TableUnchanged ==
    [][(pc = "loaded" /\ pc' = "done") => (data' = data /\ columns' = columns)]_vars

(***************************************************************************)
(* Properties of the top-20 ranking.                                       *)
(***************************************************************************)
TopDone == pc = "done" /\ call.fn = "calculate_top_20"

\* the months that have rows in the result, and the result rows of one month
ResultMonths == {result[r].Month : r \in DOMAIN result}
RowsOfMonth(ym) == {r \in DOMAIN result : result[r].Month = ym}

\* the students with a booking in month ym, and their booking counts
MonthStudents(ym) == {id \in {data[i].Id_Person : i \in DOMAIN data} : BookingsIn(id, ym) # {}}
CountIn(id, ym) == Cardinality(BookingsIn(id, ym))

\* the 20th-highest count of month ym; with fewer than 20 students every count reaches it
TwentiethCount(ym) ==
    LET S == MonthStudents(ym)
    IN  IF Cardinality(S) < TopN THEN 1
        ELSE Max({c \in {CountIn(id, ym) : id \in S} :
                    Cardinality({id \in S : CountIn(id, ym) >= c}) >= TopN})

\* C4: the students returned for a month are exactly those whose count is at
\* least the 20th-highest count of the month, ties with the 20th place included.
C4_TieInclusive ==
    TopDone =>
        \A ym \in ResultMonths :
            {result[r].Id_Person : r \in RowsOfMonth(ym)}
                = {id \in MonthStudents(ym) : CountIn(id, ym) >= TwentiethCount(ym)}

\* C5: within a month the ranks are exactly 1..K, none twice, and Bookings
\* does not increase as Rank increases.
C5_RanksDense ==
    TopDone =>
        \A ym \in ResultMonths :
            LET rows == RowsOfMonth(ym)
            IN  /\ {result[r].Rank : r \in rows} = 1..Cardinality(rows)
                /\ \A r1 \in rows, r2 \in rows :
                    /\ (r1 # r2 => result[r1].Rank # result[r2].Rank)
                    /\ (result[r1].Rank < result[r2].Rank
                            => result[r1].Bookings >= result[r2].Bookings)

\* a month with at least 20 ranked rows and two different counts among them
C5_Witness ==
    /\ TopDone
    /\ \E ym \in ResultMonths :
        /\ Cardinality(RowsOfMonth(ym)) >= TopN
        /\ \E r1 \in RowsOfMonth(ym), r2 \in RowsOfMonth(ym) :
            result[r1].Bookings > result[r2].Bookings

(***************************************************************************)
(* Properties of the category partition.                                   *)
(***************************************************************************)
DistDone == pc = "done" /\ call.fn = "calculate_distribution"

VennKeys == {"100", "010", "001", "110", "101", "011", "111"}

RECURSIVE SumCard(_, _)
SumCard(f, K) ==
    IF K = {} THEN 0
    ELSE LET k == CHOOSE x \in K : TRUE IN Cardinality(f[k]) + SumCard(f, K \ {k})

\* C6: the 7 subset member sets are pairwise disjoint, their union is the union
\* of the Spin, Sport and Choreo sets, and their sizes sum to total_students.
C6_Partition ==
    DistDone =>
        /\ \A a \in VennKeys, b \in VennKeys :
            a # b => result.sizes[a] \cap result.sizes[b] = {}
        /\ UNION {result.sizes[k] : k \in VennKeys}
                = UNION {result.sets[cat] : cat \in {"Spin", "Sport", "Choreo"}}
        /\ SumCard(result.sizes, VennKeys) = result.total_students

\* one student in two categories and another in the third
C6_Witness ==
    /\ DistDone
    /\ result.total_students = 2
    /\ result.sizes["110"] # {}
    /\ result.sizes["001"] # {}

\* the table without its Self Practice rows, whatever their letter case
WithoutSelfPractice(df) ==
    Keep(df, {i \in DOMAIN df : df[i].Class_Name \notin SelfPracticeNames}, 1)

\* C8: a row whose Class_Name contains 'Self Practice' in any letter case
\* contributes to no count, set or ranking: the category partition is what it
\* would be without those rows.
C8_SelfPracticeAnyCase ==
    DistDone =>
        result = calculate_distribution(WithoutSelfPractice(data),
                                        call.start_period, call.end_period)

(***************************************************************************)
(* Properties of the monthly threshold counter.                            *)
(***************************************************************************)
UsersDone == pc = "done" /\ call.fn = "calculate_monthly_users"

\* the rows of data that are bookings of student id in month ym
RowsIn(id, ym) ==
    {i \in DOMAIN data :
        /\ data[i].Id_Person = id
        /\ data[i].Start_Date_time # NaT
        /\ data[i].Start_Date_time.ym = ym}

\* the months that have at least one row in data
DataMonths == {data[i].Start_Date_time.ym : i \in {j \in DOMAIN data : data[j].Start_Date_time # NaT}}

\* C9: for every threshold N of the list and every month with a row in the
\* data, the cell Users_>=_N of that month is the number of distinct students
\* with at least N bookings in that month.
C9_ThresholdCounts ==
    UsersDone =>
        \A k \in DOMAIN call.thresholds, ym \in DataMonths :
            LET rows == {m \in DOMAIN result : result[m].Month = FormatYM(ym)}
            IN  /\ Cardinality(rows) = 1
                /\ \A m \in rows :
                    LET cells == {c \in DOMAIN result[m].cells :
                                    result[m].cells[c].column = ColumnName(call.thresholds[k], "")}
                    IN  /\ Cardinality(cells) = 1
                        /\ \A c \in cells :
                            result[m].cells[c].value
                                = Cardinality({id \in {data[i].Id_Person : i \in DOMAIN data} :
                                        Cardinality(RowsIn(id, ym)) >= call.thresholds[k]})

\* the scenario of the claim on a smaller scale: thresholds [1, 2], one student
\* with 1 and 2 bookings in the two months, another with 0 and 1: the cells are
\* 1 and 0 in the first month, 2 and 1 in the second
C9_Witness ==
    /\ UsersDone
    /\ call.thresholds = <<1, 2>>
    /\ Len(result) = 2
    /\ result[1].cells[1].value = 1
    /\ result[1].cells[2].value = 0
    /\ result[2].cells[1].value = 2
    /\ result[2].cells[2].value = 1

(***************************************************************************)
(* Properties of the engine functions taken together.                      *)
(***************************************************************************)
\* C11: an engine function called a second time with the same parameters, on
\* the table as the first call left it, returns what the first call returned.
C11_SecondCallSame ==
    [][(pc = "done" /\ pc' = "again") => result' = result]_vars

\* the per-student series computed again, on the table that now carries the
\* YearMonth column, with bookings of two students in its rows
C11_Witness ==
    /\ pc = "again"
    /\ call.fn = "calculate_monthly_bookings"
    /\ "YearMonth" \in columns
    /\ \E k1 \in DOMAIN result, k2 \in DOMAIN result :
        /\ result[k1].Id_Person # result[k2].Id_Person
        /\ result[k1].Bookings > 0
        /\ result[k2].Bookings > 0

\* the students that share their FirstName with another student of the table
SameNameStudents ==
    {id \in {data[i].Id_Person : i \in DOMAIN data} :
        \E i \in DOMAIN data, j \in DOMAIN data :
            /\ data[i].Id_Person = id
            /\ data[j].Id_Person # id
            /\ data[j].FirstName = data[i].FirstName}

\* the bookings of student id in the window of the last call that carry the category cat
CategoryBookings(id, cat) ==
    {i \in DOMAIN data :
        /\ data[i].Id_Person = id
        /\ data[i].Cateory = cat
        /\ data[i].Start_Date_time.ym \in ParsePeriod(call.start_period)..ParsePeriod(call.end_period)}

\* C15: students with different Id_Person and the same FirstName are kept
\* apart.  Each is counted in the frequency bin of its own bookings, has its
\* own row per month in the per-student series and in the ranking, with its
\* own booking count, and is placed in the category sets of its own bookings.
C15_SameNameApart ==
    /\ FreqDone =>
        /\ \A i \in 1..call.max_upper :
            result[i].Students = Cardinality({id \in WindowStudents : PooledCount(id) = i})
        /\ result[call.max_upper + 1].Students
                = Cardinality({id \in WindowStudents : PooledCount(id) > call.max_upper})
    /\ StudentDone =>
        \A id \in Range(call.selected_students),
           ym \in ParsePeriod(call.start_date)..ParsePeriod(call.end_date) :
            (\E m \in ParsePeriod(call.start_date)..ParsePeriod(call.end_date) :
                    BookingsIn(id, m) # {})
                => LET rows == {k \in DOMAIN result :
                                    /\ result[k].Id_Person = id
                                    /\ result[k].YearMonth = FormatYM(ym)}
                   IN  /\ Cardinality(rows) = 1
                       /\ \A k \in rows : result[k].Bookings = Cardinality(BookingsIn(id, ym))
    /\ TopDone =>
        \A ym \in ResultMonths : \A id \in MonthStudents(ym) :
            LET rows == {r \in RowsOfMonth(ym) : result[r].Id_Person = id}
            IN  /\ Cardinality(rows) = 1
                /\ \A r \in rows : result[r].Bookings = CountIn(id, ym)
    /\ DistDone =>
        /\ \A cat \in {"Spin", "Sport", "Choreo"} :
            result.sets[cat]
                = {id \in {data[i].Id_Person : i \in DOMAIN data} : CategoryBookings(id, cat) # {}}
        /\ \A id \in DOMAIN result.total_bookings_per_student :
            result.total_bookings_per_student[id]
                = Cardinality(UNION {CategoryBookings(id, cat) : cat \in {"Spin", "Sport", "Choreo"}})
        /\ \A id \in result.sets["Spin"] \cup result.sets["Sport"] :
            Cardinality({k \in VennKeys : id \in result.sizes[k]}) = 1

\* two students of the same FirstName ranked in the same month, each with its own row
C15_Witness ==
    /\ TopDone
    /\ Cardinality(SameNameStudents) = 2
    /\ \E ym \in ResultMonths :
        /\ SameNameStudents \subseteq MonthStudents(ym)
        /\ Cardinality(RowsOfMonth(ym)) = 2

(***************************************************************************)
(* Properties of the period parameters.                                    *)
(***************************************************************************)
\* a period string of the form YYYY-MM: four digits, '-', a two-digit month 01..12
IsPeriod(s) ==
    /\ Len(s) = 7
    /\ \A i \in {1, 2, 3, 4, 6, 7} : IsDigit(s[i])
    /\ s[5] = 45
    /\ (s[6] - 48) * 10 + (s[7] - 48) \in 1..12

\* the period strings of the last call
CallPeriods ==
    IF call.fn = "create_frequency_table" THEN {call.period}
    ELSE {call.start_date, call.end_date}

\* C12: a call with a period string that is not of the form YYYY-MM ends in a
\* failure reported to the caller, never in a returned result.
C12_InvalidPeriodReported ==
    (pc = "done" /\ \E p \in CallPeriods : ~IsPeriod(p)) => result.raised

(***************************************************************************)
(* Properties of the pages.                                                *)
(***************************************************************************)
\* the rows of data that qualify for the window of the last call: not Self
\* Practice, and in a month of the window
QualifyingRows ==
    {i \in DOMAIN data :
        /\ data[i].Class_Name \notin SelfPracticeNames
        /\ data[i].Start_Date_time # NaT
        /\ data[i].Start_Date_time.ym >= ParsePeriod(call.start_date)
        /\ data[i].Start_Date_time.ym <= ParsePeriod(call.end_date)}

TopPageDone == pc = "done" /\ call.fn = "update_top_20_table"

\* C13: when the window has no qualifying row, calculate_top_20 returns a
\* result without rows and the page shows 'No data found for selected period'
\* in yellow, not the red 'Error:' message.
C13_EmptyWindowNotAnError ==
    (TopPageDone /\ QualifyingRows = {}) =>
        /\ Len(calculate_top_20(data, call.start_date, call.end_date, call.tie)) = 0
        /\ result.status = "No data found for selected period"
        /\ result.className = YellowClass

\* a table with rows, none of them qualifying: Self Practice in the window and
\* a class outside it
C13_Witness ==
    /\ TopPageDone
    /\ QualifyingRows = {}
    /\ \E i \in DOMAIN data, j \in DOMAIN data :
        /\ data[i].Class_Name \in SelfPracticeNames
        /\ data[j].Class_Name \notin SelfPracticeNames
    /\ result.className = YellowClass

\* the selected students of the last call that have no row in the table
UnknownStudents ==
    {id \in Range(call.selected_students) : \A i \in DOMAIN data : data[i].Id_Person # id}

\* C14: with a selected student that has no row in the table, the graph
\* callback ends in its error branch and the export callback exports nothing.
C14_UnknownStudentReported ==
    [][(pc' = "done" /\ UnknownStudents' # {}) =>
            /\ call'.fn = "update_graph" => result'.className = RedClass
            /\ call'.fn = "export_chart_data" => result'.download = result.download]_vars

\* C16: when update_graph ends in its error branch after a successful run, the
\* results section, the figure and the stored chart data stay as they were.
C16_ErrorKeepsResults ==
    [][(/\ pc' = "done"
        /\ call'.fn = "update_graph"
        /\ result.className = GreenClass
        /\ result'.className = RedClass) =>
            /\ result'.style = result.style
            /\ result'.figure = result.figure
            /\ result'.chart_data = result.chart_data]_vars

(***************************************************************************)
(* Properties of the window of the per-student series.                     *)
(***************************************************************************)
RECURSIVE SumBookings(_)
SumBookings(rows) ==
    IF rows = {} THEN 0
    ELSE LET k == CHOOSE x \in rows : TRUE
         IN  result[k].Bookings + SumBookings(rows \ {k})

\* C17: for a selected student and a month of the window, the series counts
\* every booking of the student in that month that is not Self Practice,
\* whatever its day and time, the last day of the end month included.
C17_WholeMonthCounted ==
    StudentDone =>
        \A id \in Range(call.selected_students),
           ym \in ParsePeriod(call.start_date)..ParsePeriod(call.end_date) :
            SumBookings({k \in DOMAIN result :
                            /\ result[k].Id_Person = id
                            /\ result[k].YearMonth = FormatYM(ym)})
                = Cardinality(BookingsIn(id, ym))

(***************************************************************************)
(* Properties of the cumulative and detail columns of the frequency table. *)
(***************************************************************************)
\* C18: 'Cum ->End' of numeric bin i is the number of students whose frequency
\* is i or more, the students of bin i included.
C18_CumToEndIncludesBin ==
    FreqDone =>
        \A i \in 1..call.max_upper :
            result[i].CumEnd = Cardinality({id \in WindowStudents : PooledCount(id) >= i})

\* the FirstName of the first row of student id in the window
FirstNameInWindow(id) ==
    LET rows == {i \in DOMAIN data :
                    /\ data[i].Id_Person = id
                    /\ data[i].Start_Date_time # NaT
                    /\ data[i].Start_Date_time.ym \in WindowMonths
                    /\ data[i].Class_Name \notin SelfPracticeNames}
    IN  data[Min(rows)].FirstName

\* the students of the bin of row i of the frequency table
BinStudents(i) ==
    IF i <= call.max_upper THEN {id \in WindowStudents : PooledCount(id) = i}
    ELSE {id \in WindowStudents : PooledCount(id) > call.max_upper}

\* C19: the Details of a bin holds one entry per student of the bin, and each
\* entry pairs the student's Id_Person with that student's FirstName.
C19_DetailsPairing ==
    FreqDone =>
        \A i \in DOMAIN result :
            /\ Len(result[i].Details) = result[i].Students
            /\ {result[i].Details[k][2] : k \in DOMAIN result[i].Details} = BinStudents(i)
            /\ \A k \in DOMAIN result[i].Details :
                result[i].Details[k][2] \in BinStudents(i)
                    => result[i].Details[k][1] = FirstNameInWindow(result[i].Details[k][2])

(***************************************************************************)
(* Properties of the retention column.                                     *)
(***************************************************************************)
\* C20: a student of a subset is among the retained ones exactly if the
\* student's bookings in the window are at least twice the months of the window.
C20_RetainedIffAverageTwo ==
    (pc = "done" /\ call.fn = "create_details_table") =>
        LET months == ParsePeriod(call.end_period) - ParsePeriod(call.start_period) + 1
        IN  \A r \in DOMAIN result : \A sid \in result[r].students :
                sid \in result[r].retention_students
                    <=> Cardinality(CategoryBookings(sid, "Spin")) >= 2 * months

(***************************************************************************)
(* Properties of the order and the rows of the top-20 ranking.             *)
(***************************************************************************)
\* C21: the result rows are ordered by Month ascending and, within a month,
\* by Rank ascending, whatever the order of the rows of the input table.
C21_MonthThenRank ==
    TopDone =>
        \A r \in 1..(Len(result) - 1) :
            \/ result[r].Month < result[r + 1].Month
            \/ /\ result[r].Month = result[r + 1].Month
               /\ result[r].Rank < result[r + 1].Rank

\* C28: within a month of the result no Id_Person is in two rows, also when
\* the table has the Id_Person under more than one FirstName.
C28_OneRowPerStudent ==
    TopDone =>
        \A r1 \in DOMAIN result, r2 \in DOMAIN result :
            (result[r1].Month = result[r2].Month /\ result[r1].Id_Person = result[r2].Id_Person)
                => r1 = r2

\* C22: every row of the calculate_top_20 result has the detail string
\* (ClassDetails) that the table view and the export read, so a ranking with
\* rows is shown with the green success status.
C22_DetailStringShown ==
    (TopPageDone /\ QualifyingRows # {}) =>
        /\ \A row \in Range(calculate_top_20(data, call.start_date, call.end_date, call.tie)) :
                "ClassDetails" \in DOMAIN row
        /\ result.status = "Analysis completed successfully"
        /\ result.className = GreenClass
        /\ result.top20_data # Absent

(***************************************************************************)
(* Properties of the monthly-threshold page.                               *)
(***************************************************************************)
UsersPageDone == pc = "done" /\ call.fn = "update_graph" /\ "threshold1" \in DOMAIN call

\* the positive values among the three threshold inputs of the last call
PositiveInputs == {t \in {call.threshold1, call.threshold2, call.threshold3} : t > 0}

\* C23: the threshold list handed to calculate_monthly_users has no
\* non-positive value and no value twice, so the result has exactly one
\* column Users_>=_N per distinct positive input N, and the analysis succeeds
\* when two inputs are equal.
C23_ThresholdsDistinctPositive ==
    (UsersPageDone /\ PositiveInputs # {}) =>
        /\ Len(call.engine) = 1
        /\ LET thresholds == call.engine[1].thresholds
               stats == calculate_monthly_users(
                            WindowData(data, call.start_date, call.end_date), thresholds)
           IN  /\ \A k \in DOMAIN thresholds : thresholds[k] > 0
               /\ \A j \in DOMAIN thresholds, k \in DOMAIN thresholds :
                    thresholds[j] = thresholds[k] => j = k
               /\ \A m \in DOMAIN stats :
                    /\ Len(stats[m].cells) = Cardinality(PositiveInputs)
                    /\ {stats[m].cells[c].column : c \in DOMAIN stats[m].cells}
                            = {ColumnName(n, "") : n \in PositiveInputs}
        /\ result.status = "Analysis completed successfully"
        /\ result.className = GreenClass

\* C24: the calculate_monthly_users result has exactly one row per month that
\* has a row in the data it is given, and every threshold cell of every row
\* holds a count (0 when no student reaches the threshold), never an empty cell.
C24_NoMissingCell ==
    UsersDone =>
        /\ Len(result) = Cardinality(DataMonths)
        /\ \A ym \in DataMonths :
                Cardinality({m \in DOMAIN result : result[m].Month = FormatYM(ym)}) = 1
        /\ \A m \in DOMAIN result :
            /\ Len(result[m].cells) = Len(call.thresholds)
            /\ \A c \in DOMAIN result[m].cells :
                /\ result[m].cells[c].value # MissingCell
                /\ result[m].cells[c].value \in 0..Len(data)

\* two months and two thresholds, where the larger threshold is reached in one
\* month only: the other month's cell of that column is 0
C24_Witness ==
    /\ UsersDone
    /\ Len(call.thresholds) = 2
    /\ Len(result) = 2
    /\ result[1].cells[1].value > 0
    /\ result[1].cells[2].value = 0
    /\ result[2].cells[2].value > 0
    /\ \E i \in DOMAIN data : data[i].Start_Date_time = NaT

(***************************************************************************)
(* Properties of the period selector.                                      *)
(***************************************************************************)
\* the table without the rows whose Start_Date_time is missing
DatedRows(df) == Keep(df, {i \in DOMAIN df : df[i].Start_Date_time # NaT}, 1)

\* C25: a row whose Start_Date_time is missing contributes to no bin of the
\* frequency table, for every period value the selector built from the same
\* table offers or preselects: the table is the one of the dated rows alone.
C25_MissingDateNotCounted ==
    FreqDone =>
        result = create_frequency_table(DatedRows(data), call.period, call.start_period,
                                        call.end_period, call.max_upper)

(***************************************************************************)
(* Properties of the pages that take a list of selections.                 *)
(***************************************************************************)
SelectionDone == pc = "done" /\ call.fn = "update_graph" /\ "page" \in DOMAIN call

\* the selections of the last call that count: thresholds above 0, students chosen
ValidSelections ==
    IF call.page = "users" THEN {k \in DOMAIN call.selection : call.selection[k] > 0}
    ELSE DOMAIN call.selection

\* C26: with no valid selection (all three thresholds <= 0, or no student
\* selected) the analysis callback shows an error in red and does not call
\* the engine function.
C26_EmptySelectionReported ==
    (SelectionDone /\ ValidSelections = {}) =>
        /\ call.engine = <<>>
        /\ result[call.page].className = RedClass
        /\ result[call.page].status \in
                {"Error: Please set at least one threshold greater than 0",
                 "Error: Please select at least one student"}
        /\ result[call.page].chart_data = Absent

\* both cases of the claim are reached, and so is a call with valid selections
C26_Witness ==
    /\ SelectionDone
    /\ ValidSelections = {}
    /\ call.page = "users"
    /\ call.selection = <<0, 0, 0>>
    /\ result.users.status = "Error: Please set at least one threshold greater than 0"

C26_WitnessStudent ==
    /\ SelectionDone
    /\ ValidSelections = {}
    /\ call.page = "student"
    /\ result.student.status = "Error: Please select at least one student"

(***************************************************************************)
(* Properties of the browsing session.                                     *)
(***************************************************************************)
\* C27: once a table is stored it stays in the shared store until a later
\* upload that parses replaces it; an upload that fails to parse leaves it
\* in place.
C27_TableKept ==
    [][(pc = "session" /\ data # Absent /\ data' # data)
            => (call'.fn = "store_shared_data" /\ call'.parsed)]_vars

\* the files an export of the page shown can compute from table df
FilesFrom(df) ==
    LET periods == {PeriodStr(df[i].Start_Date_time) : i \in DOMAIN df}
    IN  IF result.screen.page = "users"
        THEN {users_update_graph(UsersLayout, df, s, e, th[1], th[2], th[3]).chart_data :
                s \in periods, e \in periods, th \in SessionThresholds}
        ELSE {Present(calculate_monthly_bookings(df, sel, s, e)) :
                s \in periods, e \in periods, sel \in PageSelections \ {<<>>}}

\* C29: the file an export emits is computed from the table that is stored
\* when the export runs, on every page and after every sequence of uploads,
\* executes and exports: once an upload has replaced the table, no export
\* emits rows of the table stored before.
C29_ExportFromStoredTable ==
    (pc = "session" /\ call.fn = "export_chart_data" /\ call.emitted /\ data # Absent) =>
        result.screen.outputs.download \in FilesFrom(data.value)

(***************************************************************************)
(* Properties of the divisions of the distribution page.                   *)
(***************************************************************************)
DivisionDone == pc = "done" /\ call.fn \in {"update_distribution", "export_venn_to_excel"}

\* C30: calculate_distribution, the diagram's percentages, create_details_table
\* and create_excel_export divide by a month count, a subset size, a
\* retained-student count or total_students only when it is above 0, for
\* every table and every pair of periods.
C30_NoDivisionByZero ==
    DivisionDone =>
        /\ \A x \in result.divisions : x.divisor > 0
        /\ result.status \notin {"Error: division by zero", "ZeroDivisionError"}

\* every kind of division is carried out in one call
C30_Witness ==
    /\ DivisionDone
    /\ {x.site : x \in result.divisions}
            = {"avg_bookings_per_month", "share", "avg_bookings", "retention_pct",
               "avg_booking_retention", "percentage"}

\* a window whose end is before its start, on a table with rows: no division
C30_WitnessReversed ==
    /\ DivisionDone
    /\ TotalMonths(call.start_period, call.end_period) = 0
    /\ result.divisions = {}

\* students in the window, none of them in a category set: total_students is 0
C30_WitnessEmptyUnion ==
    /\ DivisionDone
    /\ {x.site : x \in result.divisions} = {"avg_bookings_per_month"}

=============================================================================
